---- MODULE Spec2Model ----
(***************************************************************************)
(* Model of the iterative refinement orchestrator of pydagi.py: the task   *)
(* record, the capability-based allocator, the stopping conditions, the    *)
(* IterationController round loop with its fan-out/gather, the caller's    *)
(* run_task budget and the agents' inbox loops.                            *)
(***************************************************************************)
EXTENDS Integers, Sequences, FiniteSets, TLC

\* ------------------------------------------------------------------ bounds
\* Largest administrative ceiling / max_iterations value a configuration uses.
MaxCeiling == 2
\* Largest number of messages delivered into one agent's inbox.
MaxInbox == 1
\* Largest candidate pool handed to the allocator on its own.
MaxPool == 2
\* Largest number of further invocations of run_iteration_loop on one controller.
MaxReentries == 1
\* Largest number of message-loop tasks of one agent that exist at a time.
MaxLoops == 2

\* ------------------------------------------------------------- sequences
Range(s) == {s[i] : i \in 1..Len(s)}

RECURSIVE FilterSeq(_, _)
\* The elements of s that are in set keep, in order (a list comprehension).
FilterSeq(s, keep) ==
    IF s = <<>> THEN <<>>
    ELSE IF Head(s) \in keep THEN <<Head(s)>> \o FilterSeq(Tail(s), keep)
         ELSE FilterSeq(Tail(s), keep)

\* ---------------------------------------------------------- capabilities
\* A capability value: a list of items, a scalar (one item), or None.
ListVal(items) == [isList |-> TRUE, isNone |-> FALSE, items |-> items]
ScalarVal(x) == [isList |-> FALSE, isNone |-> FALSE, items |-> <<x>>]
NoneVal == [isList |-> FALSE, isNone |-> TRUE, items |-> <<>>]

CapKeys == {"roles", "domain"}

\* dict.get(key): the value, or None when the key is absent.
CapGet(caps, key) == IF key \in DOMAIN caps THEN caps[key] ELSE NoneVal

\* A match that wants every required item on the agent's side.
MatchesKeyAllItems(agent_value, req_value) ==
    IF agent_value.isNone THEN FALSE
    ELSE IF req_value.isList
         THEN \A i \in 1..Len(req_value.items) :
                  req_value.items[i] \in Range(agent_value.items)
         ELSE IF agent_value.isList
              THEN req_value.items[1] \in Range(agent_value.items)
              ELSE agent_value.items = req_value.items

\* One key of CapabilityBasedAllocator._matches_requirements.
MatchesKey(agent_value, req_value) ==
    IF agent_value.isNone THEN FALSE
    ELSE IF req_value.isList
         THEN \E i \in 1..Len(req_value.items) :
                  req_value.items[i] \in Range(agent_value.items)
         ELSE IF agent_value.isList
              THEN req_value.items[1] \in Range(agent_value.items)
              ELSE agent_value.items = req_value.items

_matches_requirements(agent_capabilities, required_capabilities) ==
    \A key \in DOMAIN required_capabilities :
        MatchesKey(CapGet(agent_capabilities, key), required_capabilities[key])

\* task.requirements.get('critic_capabilities', {"roles": ["critic"]})
DefaultCriticReqs == [roles |-> ListVal(<<"critic">>)]

\* The ids of the agents of pool (a list of [id, caps]) matching req, in order.
RECURSIVE MatchingIds(_, _)
MatchingIds(pool, req) ==
    IF pool = <<>> THEN <<>>
    ELSE IF _matches_requirements(Head(pool).caps, req)
         THEN <<Head(pool).id>> \o MatchingIds(Tail(pool), req)
         ELSE MatchingIds(Tail(pool), req)

\* An allocation that keeps every matching critic.
allocateKeepingOverlap(requirements, pool) ==
    LET proposing_agents == MatchingIds(pool, requirements.proposer_capabilities)
        critiquing_agents == MatchingIds(pool, requirements.critic_capabilities)
    IN  IF proposing_agents = <<>>
        THEN [ok |-> FALSE, proposers |-> <<>>, critics |-> <<>>]
        ELSE [ok |-> TRUE, proposers |-> proposing_agents, critics |-> critiquing_agents]

\* CapabilityBasedAllocator.allocate: [ok, proposers, critics].
allocate(requirements, pool) ==
    LET proposing_agents == MatchingIds(pool, requirements.proposer_capabilities)
        critiquing_agents == MatchingIds(pool, requirements.critic_capabilities)
        selected_critics ==
            FilterSeq(critiquing_agents, Range(critiquing_agents) \ Range(proposing_agents))
    IN  IF proposing_agents = <<>>
        THEN [ok |-> FALSE, proposers |-> <<>>, critics |-> <<>>]
        ELSE [ok |-> TRUE,
              proposers |-> proposing_agents,
              critics |-> IF selected_critics = <<>> /\ critiquing_agents # <<>>
                          THEN critiquing_agents
                          ELSE selected_critics]

\* ------------------------------------------------------- agent pools used
Agents == {"a1", "a2", "a3"}

ProposerCaps == [roles |-> ListVal(<<"proposer">>)]
CriticCaps == [roles |-> ListVal(<<"critic">>)]
BothCaps == [roles |-> ListVal(<<"proposer", "critic">>)]

\* Two proposers and a disjoint critic.
PoolDisjoint == << [id |-> "a1", caps |-> ProposerCaps],
                   [id |-> "a2", caps |-> ProposerCaps],
                   [id |-> "a3", caps |-> CriticCaps] >>
\* One proposer, nobody with the critic role.
PoolSolo == << [id |-> "a1", caps |-> ProposerCaps] >>
\* Every critic is also a proposer.
PoolOverlap == << [id |-> "a1", caps |-> BothCaps],
                  [id |-> "a2", caps |-> BothCaps] >>

ProposerReqs == [proposer_capabilities |-> [roles |-> ListVal(<<"proposer">>)],
                 critic_capabilities |-> DefaultCriticReqs]

\* ------------------------------------------------------ message contents
\* The content dictionary of a reply; "" stands for an absent (or empty) entry.
Content(p, r, c, e) ==
    [tag |-> "data", proposal |-> p, revised_proposal |-> r, critique |-> c, error |-> e]
\* Python's None where a content dictionary is expected.
NoneData == [tag |-> "none", proposal |-> "", revised_proposal |-> "", critique |-> "", error |-> ""]
\* The {"error": loop_error} payload stored on a fault.
ErrorResult == [tag |-> "error", proposal |-> "", revised_proposal |-> "", critique |-> "", error |-> "loop_error"]

\* resp_data.get("proposal") or resp_data.get("revised_proposal")
ProposalText(resp_data) ==
    IF resp_data.proposal # "" THEN resp_data.proposal ELSE resp_data.revised_proposal

\* How one agent.process call under wait_for can end: a reply message of some
\* kind, no message (None), the timeout, or an exception.
ReplyKinds == {"PROPOSAL", "CRITIQUE", "PROCESSING_ERROR", "NONE", "TIMEOUT", "EXCEPTION"}
Reply(mtype, content) == [mtype |-> mtype, content |-> content]

\* IterationController._collect_responses.get_response: the dictionary returned
\* for one agent ("" error and NoneData response_data stand for absent keys).
get_response(agent_id, reply, expected_response_type) ==
    IF reply.mtype = "TIMEOUT"
    THEN [agent_id |-> agent_id, response_data |-> NoneData, error |-> "Timeout"]
    ELSE IF reply.mtype = "EXCEPTION"
    THEN [agent_id |-> agent_id, response_data |-> NoneData, error |-> "Unexpected error"]
    ELSE IF reply.mtype = expected_response_type
    THEN [agent_id |-> agent_id, response_data |-> reply.content, error |-> ""]
    ELSE IF reply.mtype = "PROCESSING_ERROR"
    THEN [agent_id |-> agent_id, response_data |-> NoneData, error |-> reply.content.error]
    ELSE [agent_id |-> agent_id, response_data |-> NoneData, error |-> "Incorrect/No response"]

\* valid_responses = [res for res in completed_tasks_results if res and not res.get("error")]
RECURSIVE ValidResponses(_)
ValidResponses(results) ==
    IF results = <<>> THEN <<>>
    ELSE IF Head(results).error = "" THEN <<Head(results)>> \o ValidResponses(Tail(results))
         ELSE ValidResponses(Tail(results))

\* ---------------------------------------------------- stopping conditions
\* A constructor that accepts any positive number.
MaxIterationsValidAnyNumber(arg_type, max_iterations) ==
    arg_type \in {"int", "float"} /\ max_iterations > 0

\* MaxIterationsCondition.__init__: isinstance(max_iterations, int) and
\* max_iterations > 0.  arg_type is the Python type of the argument.
MaxIterationsValid(arg_type, max_iterations) == arg_type = "int" /\ max_iterations > 0

\* A check that stops one round late.
MaxIterationsCheckLate(cond, iteration_state) ==
    iteration_state.current_iteration > cond.max_iterations

\* MaxIterationsCondition.check
MaxIterationsCheck(cond, iteration_state) ==
    iteration_state.current_iteration >= cond.max_iterations

\* SolutionConvergenceCondition.__init__: isinstance(threshold, (float, int))
\* and 0.0 <= threshold <= 1.0 (threshold in hundredths).
ThresholdValid(arg_type, threshold) ==
    arg_type \in {"float", "int"} /\ 0 <= threshold /\ threshold <= 100

Abs(n) == IF n < 0 THEN 0 - n ELSE n
Max2(a, b) == IF a >= b THEN a ELSE b

\* SolutionConvergenceCondition._calculate_similarity, as the fraction num/den.
_calculate_similarity(prev_proposals, current_proposals) ==
    IF prev_proposals = <<>> \/ current_proposals = <<>> THEN [num |-> 0, den |-> 1]
    ELSE LET prev_text == ProposalText(prev_proposals[1].response_data)
             curr_text == ProposalText(current_proposals[1].response_data)
             longest == Max2(Max2(Len(prev_text), Len(curr_text)), 1)
         IN  IF prev_text # "" /\ curr_text # ""
             THEN IF prev_text = curr_text
                  THEN [num |-> 1, den |-> 1]
                  ELSE [num |-> Max2(0, longest - Abs(Len(prev_text) - Len(curr_text))),
                        den |-> longest]
             ELSE [num |-> 0, den |-> 1]

\* A check that is content with one completed round.
ConvergenceCheckOneRound(cond, iteration_state) ==
    LET history == iteration_state.history
    IN  IF iteration_state.current_iteration < 1 \/ Len(history) < 1 THEN FALSE
        ELSE LET similarity ==
                     _calculate_similarity(history[Max2(Len(history) - 1, 1)].proposals,
                                           history[Len(history)].proposals)
             IN  similarity.num * 100 >= cond.threshold * similarity.den

\* SolutionConvergenceCondition.check
ConvergenceCheck(cond, iteration_state) ==
    LET history == iteration_state.history
    IN  IF iteration_state.current_iteration < 1 \/ Len(history) < 2 THEN FALSE
        ELSE LET similarity == _calculate_similarity(history[Len(history) - 1].proposals,
                                                     history[Len(history)].proposals)
             IN  similarity.num * 100 >= cond.threshold * similarity.den

\* StoppingCondition.check, by the class of the configured condition.  A
\* "custom" condition is a caller-supplied subclass that fires at the round
\* numbers in stopAt; a "raising" one never fires.
check(cond, iteration_state) ==
    IF cond.kind = "max" THEN MaxIterationsCheck(cond, iteration_state)
    ELSE IF cond.kind = "conv" THEN ConvergenceCheck(cond, iteration_state)
    ELSE cond.kind = "custom" /\ iteration_state.current_iteration \in cond.stopAt

\* A condition that counts its remaining rounds down on every check.
AfterCheckCountdown(cond) == [cond EXCEPT !.max_iterations = @ - 1]

\* The condition's own fields after a call of check: both built-in checks read
\* self.max_iterations / self.threshold / self.metric and assign nothing
\* (lines 1183-1189, 1200-1234).
AfterCheck(cond) == cond

\* The check of a caller-supplied subclass raises at the round numbers in stopAt.
CheckRaises(cond, iteration_state) ==
    cond.kind = "raising" /\ iteration_state.current_iteration \in cond.stopAt

\* The configured condition: its class, the type and value of its constructor
\* argument and, for a caller-supplied subclass, the rounds it reacts at.
MaxCondOf(arg_type, n) ==
    [kind |-> "max", arg_type |-> arg_type, max_iterations |-> n, threshold |-> 0, stopAt |-> {}]
ConvCondOf(arg_type, t) ==
    [kind |-> "conv", arg_type |-> arg_type, max_iterations |-> 0, threshold |-> t, stopAt |-> {}]
MaxCond(n) == MaxCondOf("int", n)
ConvCond(t) == ConvCondOf("float", t)
CustomCond(S) ==
    [kind |-> "custom", arg_type |-> "none", max_iterations |-> 0, threshold |-> 0, stopAt |-> S]
RaisingCond(S) ==
    [kind |-> "raising", arg_type |-> "none", max_iterations |-> 0, threshold |-> 0, stopAt |-> S]
\* stopping_condition_class given as a name that does not resolve to a
\* StoppingCondition: "unknown" or "foreign".
UnresolvedCond(kind) ==
    [kind |-> kind, arg_type |-> "none", max_iterations |-> 0, threshold |-> 0, stopAt |-> {}]

\* ----------------------------------------------------------- final result
\* IterationController._select_final_result
RECURSIVE _select_final_result(_)
_select_final_result(history) ==
    IF history = <<>> THEN NoneData
    ELSE IF history[Len(history)].proposals # <<>>
         THEN history[Len(history)].proposals[1].response_data
         ELSE _select_final_result(SubSeq(history, 1, Len(history) - 1))

\* ------------------------------------------------------------------ state
VARIABLES
    cfg,                    \* what the caller submits: pool, requirements, iteration config
    status,                 \* Task.status
    error_info,             \* Task.error_info ("" is None)
    completed_at,           \* Task.completed_at is set
    results,                \* Task.results
    task_history,           \* Task.history
    _iteration_controllers, \* TaskManager._iteration_controllers (task ids)
    proposer_agents,        \* IterationController.proposer_agents
    critic_agents,          \* IterationController.critic_agents
    iteration_num,          \* IterationController.iteration_num
    history,                \* IterationController.history
    _task_running,          \* IterationController._task_running
    last_proposals_map,     \* run_iteration_loop's last_proposals_map ("" is absent)
    iteration_log,          \* run_iteration_loop's iteration_log of the round in progress
    pc,                     \* where run_iteration_loop stands
    recipients,             \* recipient_agents of the gather in progress
    calls,                  \* per agent: the get_response task of the gather in progress
    outbox,                 \* per agent: the message of the latest fan-out sent to it
    sent,                   \* number of fan-outs dispatched so far
    caller,                 \* where DAGINetwork.run_task stands
    inbox,                  \* per agent: number of messages in BaseAgent._inbox
    loop_busy,              \* per agent: _message_loop is inside process()
    raised,                 \* the exception submit_task raised to its caller ("" is none)
    reentries,              \* invocations of run_iteration_loop besides the scheduled one
    _agents,                \* AgentManager._agents: registered id -> agent object
    _is_running,            \* per agent id: BaseAgent._is_running of the object created with it
    last_call,              \* the latest add_agent / remove_agent / send call and how it ended
    _processing_task,       \* per agent id: BaseAgent._processing_task (0 is None)
    loops,                  \* per agent id: the _message_loop tasks that have not ended
    awaited                 \* per agent id: the loops suspended stop() calls are awaiting

taskVars == <<status, error_info, completed_at, results, task_history>>
ctrlVars == <<_iteration_controllers, proposer_agents, critic_agents, iteration_num, history,
              _task_running, last_proposals_map, iteration_log, pc, recipients>>
wireVars == <<calls, outbox, sent>>
loopVars == <<inbox, loop_busy>>
lifeVars == <<_processing_task, loops, awaited>>
netVars == <<_agents, _is_running, last_call, lifeVars>>
vars == <<cfg, taskVars, ctrlVars, wireVars, caller, loopVars, raised, reentries, netVars>>

TaskId == "t1"

\* The submitted configuration after one call of stopping_condition.check.
Checked == [cfg EXCEPT !.cond = AfterCheck(cfg.cond)]
Terminal == {"completed", "failed", "converged", "failed_timeout"}

\* A message of a fan-out; mtype "" is no message.
Msg(mtype, iteration, last_proposal, critiques, proposals) ==
    [mtype |-> mtype, iteration |-> iteration, last_proposal |-> last_proposal,
     critiques |-> critiques, proposals |-> proposals]
NoMsg == Msg("", 0, "", <<>>, <<>>)

IdleCall == [st |-> "idle", reply |-> Reply("NONE", NoneData)]
InflightCall == [st |-> "inflight", reply |-> Reply("NONE", NoneData)]

\* ------------------------------------------------------ what agents answer
ProposalTexts == {"", "p", "qq"}
ErrorTexts == {"", "boom"}
DisplayIds == {"d1", "d2"}

\* The ways a process() call answering a request of the given type can end:
\* the expected kind with some text, another kind, an error reply, no reply,
\* the timeout, an exception.
AllRepliesFor(request_type) ==
    (IF request_type = "TASK_PROMPT"
       THEN {Reply("PROPOSAL", Content(t, "", "", "")) : t \in ProposalTexts}
            \cup {Reply("CRITIQUE", Content("", "", "c", ""))}
     ELSE IF request_type = "REVISION_REQUEST"
       THEN {Reply("PROPOSAL", Content("", t, "", "")) : t \in ProposalTexts}
            \cup {Reply("CRITIQUE", Content("", "", "c", ""))}
     ELSE {Reply("CRITIQUE", Content("", "", "c", "")),
           Reply("PROPOSAL", Content("p", "", "", ""))})
    \cup {Reply("PROCESSING_ERROR", Content("", "", "", e)) : e \in ErrorTexts}
    \cup {Reply(k, NoneData) : k \in {"NONE", "TIMEOUT", "EXCEPTION"}}

\* The endings the round loop is explored with: one of each kind of outcome
\* that the loop can tell apart after the gather.
RepliesFor(request_type) ==
    {r \in AllRepliesFor(request_type) :
        /\ r.mtype \notin {"NONE", "EXCEPTION"}
        /\ r.mtype = "PROCESSING_ERROR" => r.content.error = ""}

\* ---------------------------------------------------------- configurations
Config(pool, cond, anonymity, ceiling, input_ok) ==
    [pool |-> pool, requirements |-> ProposerReqs, cond |-> cond, anonymity |-> anonymity,
     absolute_max_iterations |-> ceiling, input_ok |-> input_ok,
     controller_class |-> "IterationController"]

\* A condition that never fires, the fixed round counts up to the ceiling, and
\* the convergence condition at threshold 0.5.
Conditions == {CustomCond({}), ConvCond(50)} \cup {MaxCond(n) : n \in 1..MaxCeiling}

Configs ==
    {Config(PoolDisjoint, c, an, MaxCeiling, TRUE) : c \in Conditions, an \in BOOLEAN}
    \cup {Config(PoolOverlap, CustomCond({}), an, 1, TRUE) : an \in BOOLEAN}
    \cup {Config(PoolSolo, c, TRUE, n, ok) :
              c \in Conditions \cup {CustomCond({0})}, n \in 1..MaxCeiling, ok \in BOOLEAN}
    \cup {Config(PoolDisjoint, CustomCond({0}), TRUE, MaxCeiling, TRUE),
          Config(PoolDisjoint, CustomCond({}), TRUE, 1, TRUE)}
    \cup {Config(PoolSolo, RaisingCond({n}), TRUE, MaxCeiling, TRUE) : n \in 0..1}
    \cup {Config(PoolDisjoint, RaisingCond({2}), TRUE, MaxCeiling, TRUE)}

\* AgentManager._agents holding the pool: each id with the agent object
\* registered under it (objects are told apart by a number).
Registered(pool) == [a \in {pool[i].id : i \in 1..Len(pool)} |-> 1]

\* No manager or channel call has been made.
NoCall == [op |-> "none", sender_id |-> "", recipient_id |-> <<>>, agent |-> 0,
           error |-> "", delivered_to |-> <<>>]

\* DAGINetwork after start(): the pool registered and every agent started.
InitWith(c) ==
    /\ cfg = c
    /\ status = "pending"
    /\ error_info = ""
    /\ completed_at = FALSE
    /\ results = NoneData
    /\ task_history = <<>>
    /\ _iteration_controllers = {}
    /\ proposer_agents = <<>>
    /\ critic_agents = <<>>
    /\ iteration_num = 0
    /\ history = <<>>
    /\ _task_running = FALSE
    /\ last_proposals_map = [a \in Agents |-> ""]
    /\ iteration_log = [iteration |-> 0, proposals |-> <<>>, critiques |-> <<>>]
    /\ pc = "none"
    /\ recipients = <<>>
    /\ calls = [a \in Agents |-> IdleCall]
    /\ outbox = [a \in Agents |-> NoMsg]
    /\ sent = 0
    /\ caller = "idle"
    /\ inbox = [a \in Agents |-> 0]
    /\ loop_busy = [a \in Agents |-> FALSE]
    /\ raised = ""
    /\ reentries = 0
    /\ _agents = Registered(c.pool)
    /\ _is_running = [a \in Agents |-> a \in DOMAIN Registered(c.pool)]
    /\ _processing_task = [a \in Agents |-> IF a \in DOMAIN Registered(c.pool) THEN 1 ELSE 0]
    /\ loops = [a \in Agents |-> IF a \in DOMAIN Registered(c.pool) THEN {1} ELSE {}]
    /\ awaited = [a \in Agents |-> {}]
    /\ last_call = NoCall

Init == \E c \in Configs : InitWith(c)

\* ------------------------------------------------------------ submit_task
\* stopping_condition_cls(**stopping_config): the constructor accepts the parameters.
CondValid(cond) ==
    IF cond.kind = "max" THEN MaxIterationsValid(cond.arg_type, cond.max_iterations)
    ELSE IF cond.kind = "conv" THEN ThresholdValid(cond.arg_type, cond.threshold)
    ELSE TRUE

\* A resolution that takes any name for a stopping condition.
CondResolvesAnyName(cond) == TRUE

\* Lines 1095-1100: stopping_condition_class names a class of the module (kind
\* "unknown": globals() has no such name) that is a StoppingCondition (kind
\* "foreign": the name is bound to something else).
CondResolves(cond) == cond.kind \notin {"unknown", "foreign"}

\* Lines 1106-1111: the same for controller_class.
ControllerResolves(controller_class) == controller_class = "IterationController"

\* Lines 1083-1111 and 1131-1137: the exception submit_task ends with, "" for
\* none.  The ValueError of a stopping-condition constructor is neither a
\* TaskAllocationError nor a ConfigurationError: the handler wraps it in DAGIError.
SubmitError(alloc) ==
    IF ~alloc.ok THEN "TaskAllocationError"
    ELSE IF ~CondResolves(cfg.cond) THEN "ConfigurationError"
    ELSE IF ~CondValid(cfg.cond) THEN "DAGIError"
    ELSE IF ~ControllerResolves(cfg.controller_class) THEN "ConfigurationError"
    ELSE ""

\* TaskManager.submit_task, called by run_task: allocate, build the stopping
\* condition and the controller, mark the task running and schedule the loop.
submit_task ==
    /\ caller = "idle"
    /\ LET alloc == allocate(cfg.requirements, cfg.pool)
       IN  IF SubmitError(alloc) # ""
           THEN /\ status' = "failed"
                /\ error_info' = "Submission error"
                /\ completed_at' = TRUE
                /\ caller' = "returned"
                /\ raised' = SubmitError(alloc)
                /\ UNCHANGED <<_iteration_controllers, proposer_agents, critic_agents, pc>>
           ELSE /\ proposer_agents' = alloc.proposers
                /\ critic_agents' = alloc.critics
                /\ _iteration_controllers' = _iteration_controllers \cup {TaskId}
                /\ status' = "running"
                /\ pc' = "scheduled"
                /\ caller' = "polling"
                /\ UNCHANGED <<error_info, completed_at, raised>>
    /\ UNCHANGED <<cfg, results, task_history, iteration_num, history, _task_running,
                   last_proposals_map, iteration_log, recipients, wireVars, loopVars,
                   reentries, netVars>>

\* ------------------------------------------------- run_iteration_loop exits
\* AgentManager defines _agents, _communication_channel and task_manager only:
\* reading agent_manager._agent_manager_ref raises AttributeError.
AgentManagerHasRef == FALSE

\* The finally block: notify the TaskManager (task_finished_callback) and
\* release the guard; the AttributeError of its first line skips both.
Finally ==
    /\ _iteration_controllers' =
           IF AgentManagerHasRef THEN _iteration_controllers \ {TaskId}
           ELSE _iteration_controllers
    /\ _task_running' = IF AgentManagerHasRef THEN FALSE ELSE TRUE
    /\ pc' = "done"

\* "Loop Finished": the loop was left by break with the task at status st and
\* error detail err, task.history being th.
LoopFinished(st, err, th) ==
    /\ status' = IF st \notin {"failed", "failed_timeout"} /\ st = "running"
                 THEN "completed" ELSE st
    /\ error_info' = IF st = "running" THEN "Finished loop." ELSE err
    /\ completed_at' = TRUE
    /\ results' = IF st \notin {"failed", "failed_timeout"}
                  THEN _select_final_result(history') ELSE results
    /\ task_history' = IF st \notin {"failed", "failed_timeout"} THEN history' ELSE th
    /\ Finally

\* An except handler that stores an empty history.
FaultDiscarding ==
    /\ status' = "failed"
    /\ error_info' = "Runtime error"
    /\ completed_at' = TRUE
    /\ results' = ErrorResult
    /\ task_history' = <<>>
    /\ Finally

\* The except handler of the loop.
Fault ==
    /\ status' = "failed"
    /\ error_info' = "Runtime error"
    /\ completed_at' = TRUE
    /\ results' = ErrorResult
    /\ task_history' = history'
    /\ Finally

\* The loop goes on to its next await, at position p.
Running(p) ==
    /\ pc' = p
    /\ _task_running' = TRUE
    /\ UNCHANGED _iteration_controllers

\* No fan-out is in progress.
NoDispatch ==
    /\ recipients' = <<>>
    /\ calls' = [a \in Agents |-> IdleCall]
    /\ UNCHANGED <<outbox, sent>>

\* _collect_responses up to the gather: one message and one get_response task
\* per recipient.
Dispatch(recips, msgs) ==
    /\ recipients' = recips
    /\ calls' = [a \in Agents |-> IF a \in Range(recips) THEN InflightCall ELSE IdleCall]
    /\ outbox' = [a \in Agents |-> IF a \in Range(recips) THEN msgs[a] ELSE NoMsg]
    /\ sent' = sent + 1

_get_iteration_state(hist) ==
    [current_iteration |-> iteration_num, history |-> hist, task_status |-> status]

\* ------------------------------------------------ start of a loop iteration
\* A loop that never looks at the previous round's critiques.
NoCritiquesUnchecked(last_critiques_data) == FALSE

\* A loop that skips the check before round 1.
PreRoundCheckSkipped == FALSE

\* Line 1361: if not last_critiques_data.
NoCritiques(last_critiques_data) == last_critiques_data = <<>>

\* Line 1335: the stopping condition on the state before round 1.
PreRoundCheck == check(cfg.cond, _get_iteration_state(history))

\* An entry numbered from 0.
RoundEntryZeroBased(n) == [iteration |-> n - 1, proposals |-> <<>>, critiques |-> <<>>]

\* Line 1345: the iteration_log a round starts with.
RoundEntry(n) == [iteration |-> n, proposals |-> <<>>, critiques |-> <<>>]

\* A revision phase that prompts every proposer.
AgentsToPromptAll == proposer_agents

\* agents_to_prompt (lines 1367-1380): the proposers with an entry in
\* last_proposals_map, in the order of proposer_agents.
AgentsToPrompt == FilterSeq(proposer_agents, {a \in Agents : last_proposals_map[a] # ""})

\* Lines 1343-1393: count the round and fan out TASK_PROMPT (round 1) or
\* REVISION_REQUEST (later rounds).
BeginIteration ==
    LET n == iteration_num + 1
        last_critiques_data == history[Len(history)].critiques
        critique_texts == [i \in 1..Len(last_critiques_data) |->
                               last_critiques_data[i].response_data.critique]
        agents_to_prompt == AgentsToPrompt
    IN  /\ iteration_num' = n
        /\ history' = history
        /\ UNCHANGED last_proposals_map
        /\ iteration_log' = RoundEntry(n)
        /\ IF n = 1
           THEN IF ~cfg.input_ok
                THEN Fault /\ NoDispatch
                ELSE /\ Dispatch(proposer_agents,
                                 [a \in Agents |-> Msg("TASK_PROMPT", n, "", <<>>, <<>>)])
                     /\ Running("propose")
                     /\ UNCHANGED taskVars
           ELSE IF NoCritiques(last_critiques_data)
                THEN /\ LoopFinished("completed", "Stopped: No critiques for revision.",
                                     task_history)
                     /\ NoDispatch
                ELSE IF agents_to_prompt = <<>>
                THEN /\ LoopFinished("failed", "No agents for revision.", task_history)
                     /\ NoDispatch
                ELSE /\ Dispatch(agents_to_prompt,
                                 [a \in Agents |-> Msg("REVISION_REQUEST", n, last_proposals_map[a],
                                                        critique_texts, <<>>)])
                     /\ Running("propose")
                     /\ UNCHANGED taskVars

\* A loop without its guard against concurrent runs.
SingleRunGuardOff == FALSE

\* Line 1327: if self._task_running: return.
SingleRunGuard == _task_running

\* run_iteration_loop from its entry to its first await (or its return).
run_iteration_loop ==
    /\ pc = "scheduled"
    /\ ~SingleRunGuard
    /\ cfg' = Checked
    /\ IF CheckRaises(cfg.cond, _get_iteration_state(history))
       THEN /\ UNCHANGED <<iteration_num, history, last_proposals_map, iteration_log>>
            /\ Fault
            /\ NoDispatch
       ELSE IF PreRoundCheck
       THEN /\ status' = "completed"
            /\ completed_at' = TRUE
            /\ Finally
            /\ NoDispatch
            /\ UNCHANGED <<error_info, results, task_history, iteration_num, history,
                           last_proposals_map, iteration_log>>
       ELSE BeginIteration
    /\ UNCHANGED <<proposer_agents, critic_agents, caller, loopVars>>
    /\ UNCHANGED <<raised, reentries, netVars>>

\* run_iteration_loop is invoked on the controller once more while the scheduled
\* invocation is suspended at one of its awaits.  Behind the guard the call
\* returns at once; an invocation that passed it would set the flag, check the
\* stopping condition and count a round of its own (it is followed no further).
Reenter ==
    /\ pc \in {"propose", "critique", "sleep"}
    /\ reentries < MaxReentries
    /\ reentries' = reentries + 1
    /\ IF SingleRunGuard
       THEN UNCHANGED <<cfg, iteration_num, _task_running>>
       ELSE /\ _task_running' = TRUE
            /\ cfg' = Checked
            /\ iteration_num' = iteration_num + 1
    /\ UNCHANGED <<taskVars, _iteration_controllers, proposer_agents, critic_agents, history,
                   last_proposals_map, iteration_log, pc, recipients, wireVars, caller,
                   loopVars, raised, netVars>>

\* The loop resumes after asyncio.sleep(0.05) with its next iteration.
NextIteration ==
    /\ pc = "sleep"
    /\ BeginIteration
    /\ UNCHANGED <<cfg, proposer_agents, critic_agents, caller, loopVars>>
    /\ UNCHANGED <<raised, reentries, netVars>>

\* ------------------------------------------------------ fan-out and gather
\* One get_response task ends: process() returned, raised, or wait_for timed out.
Resolve(a) ==
    /\ calls[a].st = "inflight"
    /\ \E reply \in RepliesFor(outbox[a].mtype) :
           calls' = [calls EXCEPT ![a] = [st |-> "done", reply |-> reply]]
    /\ UNCHANGED <<cfg, taskVars, ctrlVars, outbox, sent, caller, loopVars>>
    /\ UNCHANGED <<raised, reentries, netVars>>

\* A gather that returns with the first task that ends.
GatherFirstResolved == \E a \in Range(recipients) : calls[a].st = "done"

\* A gather that also waits for agents that were never prompted.
GatherResolvedEveryAgent == \A a \in Agents : calls[a].st = "done"

\* await asyncio.gather(*tasks) returns: every get_response task has ended.
GatherResolved == \A a \in Range(recipients) : calls[a].st = "done"

\* completed_tasks_results, in the order of recipient_agents.
Gathered(expected_response_type) ==
    [i \in 1..Len(recipients) |->
        get_response(recipients[i], calls[recipients[i]].reply, expected_response_type)]

\* What _collect_responses returns.
_collect_responses(expected_response_type) ==
    ValidResponses(Gathered(expected_response_type))

\* A safety break that lets the round at the ceiling be followed by one more.
CeilingReachedLate == iteration_num > cfg.absolute_max_iterations

\* Line 1460: the safety break, iteration_num >= absolute_max_iterations.
CeilingReached == iteration_num >= cfg.absolute_max_iterations

\* A round's end that reports the ceiling as convergence.
PostRoundStatusCeilingConverged(hist) ==
    IF check(cfg.cond, _get_iteration_state(hist)) THEN "converged"
    ELSE IF iteration_num >= cfg.absolute_max_iterations THEN "converged"
    ELSE status

\* Lines 1454-1463: the status the round's end gives the task, with hist the
\* history including the round: converged on a satisfied stopping condition,
\* completed at the ceiling, otherwise as it is.
PostRoundStatus(hist) ==
    IF check(cfg.cond, _get_iteration_state(hist)) THEN "converged"
    ELSE IF CeilingReached THEN "completed"
    ELSE status

\* A record that keeps the latest round only.
RecordedLatestOnly(hist, log) == <<log>>

\* Line 1451: self.history.append(iteration_log).
Recorded(hist, log) == Append(hist, log)

\* Lines 1450-1466: record the round, then the stopping condition and the ceiling.
PostRound(log) ==
    /\ history' = Recorded(history, log)
    /\ cfg' = Checked
    /\ IF CheckRaises(cfg.cond, _get_iteration_state(history'))
       THEN Fault
       ELSE IF check(cfg.cond, _get_iteration_state(history'))
          \/ CeilingReached
       THEN LoopFinished(PostRoundStatus(history'),
                         IF check(cfg.cond, _get_iteration_state(history'))
                         THEN error_info ELSE "Reached max iterations.",
                         history')
       ELSE /\ task_history' = history'
            /\ Running("sleep")
            /\ UNCHANGED <<status, error_info, completed_at, results>>

\* A map that keeps only the outputs of the round just gathered.
UpdatedLastProposalsForgetting(current_proposals) ==
    [a \in Agents |->
        LET hits == {i \in 1..Len(current_proposals) :
                        /\ current_proposals[i].agent_id = a
                        /\ ProposalText(current_proposals[i].response_data) # ""}
        IN  IF hits = {} THEN ""
            ELSE ProposalText(current_proposals[CHOOSE i \in hits : TRUE].response_data)]

\* Lines 1397-1403: the last known proposal of every agent with usable content.
UpdatedLastProposals(current_proposals) ==
    [a \in Agents |->
        LET hits == {i \in 1..Len(current_proposals) :
                        /\ current_proposals[i].agent_id = a
                        /\ ProposalText(current_proposals[i].response_data) # ""}
        IN  IF hits = {} THEN last_proposals_map[a]
            ELSE ProposalText(current_proposals[CHOOSE i \in hits : \A j \in hits : j <= i].response_data)]

\* A critique request that carries every valid response, with text or without.
WithTextAll(current_proposals) == current_proposals

\* The entries of current_proposals with proposal text (lines 1416-1420).
RECURSIVE WithText(_)
WithText(current_proposals) ==
    IF current_proposals = <<>> THEN <<>>
    ELSE IF ProposalText(Head(current_proposals).response_data) # ""
         THEN <<Head(current_proposals)>> \o WithText(Tail(current_proposals))
         ELSE WithText(Tail(current_proposals))

\* A request that names the author next to the display id.
ProposalInfosWithAuthor(usable, ids) ==
    [i \in 1..Len(usable) |->
        [proposal |-> ProposalText(usable[i].response_data),
         display_id |-> IF cfg.anonymity THEN ids[i] ELSE "",
         agent_id |-> usable[i].agent_id]]

\* critique_request_content["proposals"] for the display ids drawn (lines 1421-1428).
ProposalInfos(usable, ids) ==
    [i \in 1..Len(usable) |->
        [proposal |-> ProposalText(usable[i].response_data),
         display_id |-> IF cfg.anonymity THEN ids[i] ELSE "",
         agent_id |-> IF cfg.anonymity THEN "" ELSE usable[i].agent_id]]

\* original_proposer_ids (line 1431): the values of anonymized_proposals_map, where
\* a later proposal with the same display id replaces an earlier one, or the
\* agent ids of the request's proposals.
OriginalProposerIds(usable, ids) ==
    IF cfg.anonymity
    THEN {usable[i].agent_id : i \in {k \in 1..Len(usable) :
                                        \A j \in 1..Len(usable) : j > k => ids[j] # ids[k]}}
    ELSE {usable[i].agent_id : i \in 1..Len(usable)}

\* eligible_critics (lines 1432-1436).
EligibleCritics(original_proposer_ids) ==
    LET eligible == FilterSeq(critic_agents, Agents \ original_proposer_ids)
    IN  IF eligible = <<>> /\ critic_agents # <<>> THEN critic_agents ELSE eligible

\* uuid4().hex[:6] for each proposal of the request.
DisplayIdChoices(n) ==
    IF cfg.anonymity THEN [1..n -> DisplayIds] ELSE {[i \in 1..n |-> "d1"]}

\* The gather of the proposal/revision phase returns: lines 1395-1448 and, when
\* no critique request goes out, the end of the round.
GatherProposals ==
    /\ pc = "propose"
    /\ GatherResolved
    /\ LET current_proposals == _collect_responses("PROPOSAL")
           log == [iteration_log EXCEPT !.proposals = current_proposals]
           usable == WithText(current_proposals)
       IN  /\ last_proposals_map' = UpdatedLastProposals(current_proposals)
           /\ iteration_log' = log
           /\ IF current_proposals = <<>>
              THEN /\ history' = history
                   /\ LoopFinished("failed", "No valid output", task_history)
                   /\ NoDispatch
                   /\ UNCHANGED cfg
              ELSE IF critic_agents # <<>> /\ usable # <<>>
              THEN \E ids \in DisplayIdChoices(Len(usable)) :
                       LET eligible_critics ==
                               EligibleCritics(OriginalProposerIds(usable, ids))
                       IN  IF eligible_critics # <<>>
                           THEN /\ Dispatch(eligible_critics,
                                            [a \in Agents |-> Msg("CRITIQUE_REQUEST", iteration_num, "",
                                                                   <<>>, ProposalInfos(usable, ids))])
                                /\ history' = history
                                /\ Running("critique")
                                /\ UNCHANGED <<cfg, taskVars>>
                           ELSE PostRound(log) /\ NoDispatch
              ELSE PostRound(log) /\ NoDispatch
    /\ UNCHANGED <<proposer_agents, critic_agents, iteration_num, caller, loopVars>>
    /\ UNCHANGED <<raised, reentries, netVars>>

\* The gather of the critique phase returns: lines 1445-1466.
GatherCritiques ==
    /\ pc = "critique"
    /\ GatherResolved
    /\ LET log == [iteration_log EXCEPT !.critiques = _collect_responses("CRITIQUE")]
       IN  /\ iteration_log' = log
           /\ PostRound(log)
           /\ NoDispatch
    /\ UNCHANGED <<proposer_agents, critic_agents, iteration_num, last_proposals_map,
                   caller, loopVars>>
    /\ UNCHANGED <<raised, reentries, netVars>>

\* ------------------------------------------------------- DAGINetwork.run_task
\* The polling loop sees a terminal status and returns.
RunTaskReturns ==
    /\ caller = "polling"
    /\ status \in Terminal
    /\ caller' = "returned"
    /\ UNCHANGED <<cfg, taskVars, ctrlVars, wireVars, loopVars>>
    /\ UNCHANGED <<raised, reentries, netVars>>

\* The polling loop finds task_execution_timeout exceeded (lines 1631-1636).  The
\* budget is positive: it has not elapsed at the first poll, and the scheduled
\* loop starts during the first asyncio.sleep(0.5).
RunTaskTimeout ==
    /\ caller = "polling"
    /\ pc # "scheduled"
    /\ status \notin Terminal
    /\ IF status = "running"
       THEN /\ status' = "failed_timeout"
            /\ error_info' = "Execution timed out."
            /\ completed_at' = TRUE
       ELSE UNCHANGED <<status, error_info, completed_at>>
    /\ caller' = "returned"
    /\ UNCHANGED <<cfg, results, task_history, ctrlVars, wireVars, loopVars>>
    /\ UNCHANGED <<raised, reentries, netVars>>

\* ------------------------------------------------- BaseAgent._message_loop
\* BaseAgent.receive_message: the channel delivers a message to a running
\* agent's inbox.
receive_message(a) ==
    /\ inbox[a] < MaxInbox
    /\ inbox' = [inbox EXCEPT ![a] = @ + 1]
    /\ UNCHANGED <<cfg, taskVars, ctrlVars, wireVars, caller, loop_busy>>
    /\ UNCHANGED <<raised, reentries, netVars>>

\* _message_loop takes a message from the inbox and awaits self.process(message).
LoopProcess(a) ==
    /\ inbox[a] > 0
    /\ ~loop_busy[a]
    /\ inbox' = [inbox EXCEPT ![a] = @ - 1]
    /\ loop_busy' = [loop_busy EXCEPT ![a] = TRUE]
    /\ UNCHANGED <<cfg, taskVars, ctrlVars, wireVars, caller>>
    /\ UNCHANGED <<raised, reentries, netVars>>

\* That process() call ends and the loop goes back to the inbox.
LoopProcessed(a) ==
    /\ loop_busy[a]
    /\ loop_busy' = [loop_busy EXCEPT ![a] = FALSE]
    /\ UNCHANGED <<cfg, taskVars, ctrlVars, wireVars, caller, inbox>>
    /\ UNCHANGED <<raised, reentries, netVars>>

\* The number of process() invocations of agent a in progress: the one awaited
\* by its inbox loop and the one awaited by the controller's get_response task.
InProcess(a) ==
    (IF loop_busy[a] THEN 1 ELSE 0) + (IF calls[a].st = "inflight" THEN 1 ELSE 0)

\* -------------------------------------------------------------- the system
Next ==
    \/ submit_task
    \/ run_iteration_loop
    \/ NextIteration
    \/ \E a \in Agents : Resolve(a)
    \/ GatherProposals
    \/ GatherCritiques
    \/ RunTaskReturns
    \/ RunTaskTimeout

Spec == Init /\ [][Next]_vars

\* The round loop of one task next to the agents' inbox loops.
InitLoop == InitWith(Config(PoolDisjoint, MaxCond(1), TRUE, 1, TRUE))

\* (With the ceiling at 1 the loop never reaches its sleep: no NextIteration.)
NextLoop ==
    \/ submit_task
    \/ run_iteration_loop
    \/ \E a \in Agents : Resolve(a)
    \/ GatherProposals
    \/ GatherCritiques
    \/ RunTaskReturns
    \/ RunTaskTimeout
    \/ \E a \in Agents : receive_message(a)
    \/ \E a \in Agents : LoopProcess(a)
    \/ \E a \in Agents : LoopProcessed(a)

SpecLoop == InitLoop /\ [][NextLoop]_vars

\* The end-to-end scenario: two proposers, one disjoint critic, max_iterations 2,
\* the default ceiling, every agent answering with the expected kind and text.
DefaultAbsoluteMax == 20

NominalRepliesFor(request_type) ==
    {r \in RepliesFor(request_type) :
        /\ r.mtype = (IF request_type = "CRITIQUE_REQUEST" THEN "CRITIQUE" ELSE "PROPOSAL")
        /\ r.mtype = "PROPOSAL" => ProposalText(r.content) # ""}

ResolveNominal(a) ==
    /\ calls[a].st = "inflight"
    /\ \E reply \in NominalRepliesFor(outbox[a].mtype) :
           calls' = [calls EXCEPT ![a] = [st |-> "done", reply |-> reply]]
    /\ UNCHANGED <<cfg, taskVars, ctrlVars, outbox, sent, caller, loopVars>>
    /\ UNCHANGED <<raised, reentries, netVars>>

InitE2E == \E an \in BOOLEAN : InitWith(Config(PoolDisjoint, MaxCond(2), an, DefaultAbsoluteMax, TRUE))

NextE2E ==
    \/ submit_task
    \/ run_iteration_loop
    \/ NextIteration
    \/ \E a \in Agents : ResolveNominal(a)
    \/ GatherProposals
    \/ GatherCritiques
    \/ RunTaskReturns
    \/ RunTaskTimeout

SpecE2E == InitE2E /\ [][NextE2E]_vars

\* ------------------------------------------------------------ allocation
\* Allocation on its own: submit_task over candidate pools of up to MaxPool
\* agents and requirement maps drawn from bounded sets.
EmptyMap == [k \in {} |-> NoneVal]

AgentIds == <<"a1", "a2", "a3">>

\* Capability maps: roles is always a list (_validate_capabilities), any other
\* key holds a scalar or a list.
CapsChoices ==
    {ProposerCaps, CriticCaps, BothCaps, EmptyMap,
     [domain |-> ScalarVal("math")],
     [roles |-> ListVal(<<"critic">>), domain |-> ScalarVal("math")],
     [roles |-> ListVal(<<"proposer">>), domain |-> ListVal(<<"math", "code">>)]}

ProposerReqChoices ==
    {EmptyMap,
     [roles |-> ListVal(<<"proposer">>)],
     [roles |-> ListVal(<<"proposer", "critic">>)],
     [roles |-> ScalarVal("critic")],
     [roles |-> ListVal(<<>>)],
     [domain |-> ScalarVal("math")],
     [domain |-> ListVal(<<"code">>)],
     [roles |-> ListVal(<<"proposer">>), domain |-> ScalarVal("code")]}

CriticReqChoices == {DefaultCriticReqs, EmptyMap, [domain |-> ScalarVal("math")]}

Pools ==
    UNION {{[i \in 1..n |-> [id |-> AgentIds[i], caps |-> c[i]]] : c \in [1..n -> CapsChoices]}
               : n \in 0..MaxPool}

InitAlloc ==
    \E pool \in Pools, preq \in ProposerReqChoices, creq \in CriticReqChoices :
        InitWith([Config(pool, MaxCond(1), TRUE, 1, TRUE) EXCEPT
                      !.requirements = [proposer_capabilities |-> preq,
                                        critic_capabilities |-> creq]])

NextAlloc == submit_task

SpecAlloc == InitAlloc /\ [][NextAlloc]_vars

\* ---------------------------------------------------- stopping conditions
\* One proposer and one critic under the built-in stopping conditions, built
\* from valid and invalid constructor arguments, every agent answering with the
\* expected kind and text.
PoolPair == << [id |-> "a1", caps |-> ProposerCaps],
               [id |-> "a3", caps |-> CriticCaps] >>

Thresholds == {0, 50, 100}

CondChoices ==
    {MaxCondOf(ty, n) : ty \in {"int", "float"}, n \in (0 - 1)..MaxCeiling}
    \cup {ConvCondOf(ty, t) : ty \in {"float", "int", "str"}, t \in Thresholds \cup {0 - 1, 101}}

InitCond == \E c \in CondChoices : InitWith(Config(PoolPair, c, FALSE, MaxCeiling + 1, TRUE))

NextCond ==
    \/ submit_task
    \/ run_iteration_loop
    \/ NextIteration
    \/ \E a \in Agents : ResolveNominal(a)
    \/ GatherProposals
    \/ GatherCritiques
    \/ RunTaskReturns

SpecCond == InitCond /\ [][NextCond]_vars

\* ------------------------------------------------- convergence on any reply
\* One proposer and one critic under the convergence condition at each
\* admissible threshold, the agents answering in any of the ways of RepliesFor.
InitConv == \E t \in Thresholds : InitWith(Config(PoolPair, ConvCond(t), FALSE, MaxCeiling + 1, TRUE))

NextConv ==
    \/ submit_task
    \/ run_iteration_loop
    \/ NextIteration
    \/ \E a \in Agents : Resolve(a)
    \/ GatherProposals
    \/ GatherCritiques
    \/ RunTaskReturns

SpecConv == InitConv /\ [][NextConv]_vars

\* --------------------------------------------- agent registry and channel
\* AgentManager and LocalCommunicationChannel on their own: agents are
\* registered, removed, started and stopped, and messages are sent through the
\* channel (the manager is linked: DAGINetwork.__init__ does that).
\* The ids agents are registered under; the third id of Agents is never
\* registered and stands for an unknown recipient anywhere in a list.
NetIds == {"a1", "a2"}

\* Agent objects constructed with the same agent_id are told apart by a number.
AgentObjects == {1, 2}

\* A registry that accepts every add.
AlreadyRegisteredNever(agent_id) == FALSE

\* Line 700: if agent.agent_id in self._agents.
AlreadyRegistered(agent_id) == agent_id \in DOMAIN _agents

\* AgentManager.add_agent with a newly constructed (not started) agent object.
add_agent(agent_id, agent) ==
    /\ IF AlreadyRegistered(agent_id)
       THEN /\ last_call' = [NoCall EXCEPT !.op = "add_agent", !.sender_id = agent_id,
                                           !.agent = agent, !.error = "AgentError"]
            /\ UNCHANGED <<_agents, _is_running, lifeVars>>
       ELSE /\ _agents' = [a \in DOMAIN _agents \cup {agent_id} |->
                               IF a = agent_id THEN agent ELSE _agents[a]]
            /\ _is_running' = [_is_running EXCEPT ![agent_id] = FALSE]
            /\ _processing_task' = [_processing_task EXCEPT ![agent_id] = 0]
            /\ loops' = [loops EXCEPT ![agent_id] = {}]
            /\ awaited' = [awaited EXCEPT ![agent_id] = {}]
            /\ last_call' = [NoCall EXCEPT !.op = "add_agent", !.sender_id = agent_id,
                                           !.agent = agent]
    /\ UNCHANGED <<cfg, taskVars, ctrlVars, wireVars, caller, loopVars, raised, reentries>>

\* AgentManager.remove_agent (the agent is not stopped).
remove_agent(agent_id) ==
    /\ IF agent_id \in DOMAIN _agents
       THEN /\ _agents' = [a \in DOMAIN _agents \ {agent_id} |-> _agents[a]]
            /\ last_call' = [NoCall EXCEPT !.op = "remove_agent", !.sender_id = agent_id]
       ELSE /\ last_call' = [NoCall EXCEPT !.op = "remove_agent", !.sender_id = agent_id,
                                           !.error = "AgentNotFoundError"]
            /\ UNCHANGED _agents
    /\ UNCHANGED <<cfg, taskVars, ctrlVars, wireVars, caller, loopVars, raised, reentries,
                   _is_running, lifeVars>>

\* The task asyncio.create_task returns: the first id no unfinished or awaited
\* loop of the agent has.
NewLoop(agent_id) ==
    CHOOSE t \in 1..MaxLoops :
        /\ t \notin loops[agent_id] \cup awaited[agent_id]
        /\ \A u \in 1..MaxLoops : u \notin loops[agent_id] \cup awaited[agent_id] => t <= u

\* BaseAgent.start of a registered agent (start_all_agents).
start(agent_id) ==
    /\ agent_id \in DOMAIN _agents
    /\ ~_is_running[agent_id]
    /\ \E t \in 1..MaxLoops : t \notin loops[agent_id] \cup awaited[agent_id]
    /\ _is_running' = [_is_running EXCEPT ![agent_id] = TRUE]
    /\ _processing_task' = [_processing_task EXCEPT ![agent_id] = NewLoop(agent_id)]
    /\ loops' = [loops EXCEPT ![agent_id] = @ \cup {NewLoop(agent_id)}]
    /\ UNCHANGED <<cfg, taskVars, ctrlVars, wireVars, caller, loopVars, raised, reentries,
                   _agents, last_call, awaited>>

\* BaseAgent.stop awaited to its end with no other call on the agent in
\* between: the flag is cleared, the inbox loop cancelled and the handle dropped.
stop(agent_id) ==
    /\ _is_running[agent_id]
    /\ _processing_task[agent_id] # 0
    /\ awaited[agent_id] = {}
    /\ _is_running' = [_is_running EXCEPT ![agent_id] = FALSE]
    /\ loop_busy' = [loop_busy EXCEPT ![agent_id] = FALSE]
    /\ _processing_task' = [_processing_task EXCEPT ![agent_id] = 0]
    /\ loops' = [loops EXCEPT ![agent_id] = @ \ {_processing_task[agent_id]}]
    /\ UNCHANGED <<cfg, taskVars, ctrlVars, wireVars, caller, inbox, raised, reentries,
                   _agents, last_call, awaited>>

\* A channel that gives up at the first id it cannot resolve.
ResolvedUntilUnknown(recipient_ids) ==
    LET unknown == {i \in 1..Len(recipient_ids) : recipient_ids[i] \notin DOMAIN _agents}
    IN  IF unknown = {} THEN recipient_ids
        ELSE SubSeq(recipient_ids, 1, (CHOOSE i \in unknown : \A j \in unknown : i <= j) - 1)

\* Lines 868-877: delivered_to for a list without the wildcard, the ids
\* get_agent_by_id resolves, in the order of the list (receive_message on an
\* unbounded queue does not raise).
Resolved(recipient_ids) == FilterSeq(recipient_ids, DOMAIN _agents)

\* Message(**message.to_dict()) (line 862): to_dict has the keys message_id and
\* timestamp, which Message.__init__ does not accept.
CopyRaises == TRUE

\* LocalCommunicationChannel.send: how the call ends and which recipients had
\* receive_message called.  At the wildcard the loop copies the message for the
\* other registered agents and returns.
SendOutcome(sender_id, recipient_ids) ==
    LET stars == {i \in 1..Len(recipient_ids) : recipient_ids[i] = "*"}
    IN  IF stars # {}
        THEN LET k == CHOOSE i \in stars : \A j \in stars : i <= j
                 all_other_agents == DOMAIN _agents \ {sender_id}
             IN  [error |-> IF all_other_agents # {} /\ CopyRaises THEN "TypeError" ELSE "",
                  delivered_to |-> Resolved(SubSeq(recipient_ids, 1, k - 1)),
                  broadcast_to |-> IF CopyRaises THEN {} ELSE all_other_agents]
        ELSE [error |-> IF Resolved(recipient_ids) = <<>> /\ recipient_ids # <<>>
                        THEN "AgentNotFoundError" ELSE "",
              delivered_to |-> Resolved(recipient_ids),
              broadcast_to |-> {}]

\* The recipients of a message: the wildcard, or a list of distinct ids.
RecipientChoices ==
    {<<"*">>} \cup
    UNION {{r \in [1..n -> Agents] : \A i, j \in 1..n : r[i] = r[j] => i = j}
               : n \in 1..Cardinality(Agents)}

\* Who sends: an agent, or the TaskManager under its controller id (line 1060).
Senders == {"a1", "dagi_controller"}

\* An agent that enqueues whatever it is handed.
AcceptsAlways(a) == TRUE

\* Line 337 of BaseAgent.receive_message: if self._is_running.
Accepts(a) == _is_running[a]

\* send(message), the inboxes having room: BaseAgent.receive_message puts the
\* message into the inbox of a running agent and ignores it otherwise.
send(sender_id, recipient_ids) ==
    LET out == SendOutcome(sender_id, recipient_ids)
        got == {a \in Agents : /\ a \in Range(out.delivered_to) \cup out.broadcast_to
                               /\ Accepts(a)}
    IN  /\ \A a \in got : inbox[a] < MaxInbox
        /\ inbox' = [a \in Agents |-> IF a \in got THEN inbox[a] + 1 ELSE inbox[a]]
        /\ last_call' = [NoCall EXCEPT !.op = "send", !.sender_id = sender_id,
                                       !.recipient_id = recipient_ids,
                                       !.error = out.error,
                                       !.delivered_to = out.delivered_to]
        /\ UNCHANGED <<cfg, taskVars, ctrlVars, wireVars, caller, loop_busy, raised, reentries,
                       _agents, _is_running, lifeVars>>

InitNet == InitWith(Config(<<>>, MaxCond(1), TRUE, 1, TRUE))

NextNet ==
    \/ \E agent_id \in NetIds, agent \in AgentObjects : add_agent(agent_id, agent)
    \/ \E agent_id \in NetIds : remove_agent(agent_id)
    \/ \E agent_id \in NetIds : start(agent_id)
    \/ \E agent_id \in NetIds : stop(agent_id)
    \/ \E sender_id \in Senders, recipient_ids \in RecipientChoices :
           send(sender_id, recipient_ids)

SpecNet == InitNet /\ [][NextNet]_vars

\* -------------------------------------------------------------- submission
\* submit_task over pools that do and do not yield a proposer, stopping
\* conditions given by class or by a name that may not resolve, with valid and
\* invalid constructor arguments, and controller classes that may not resolve;
\* an accepted task runs with every agent answering as expected.
PoolCriticOnly == << [id |-> "a3", caps |-> CriticCaps] >>

SubmitPools == {PoolPair, PoolCriticOnly, <<>>}

SubmitConds ==
    {MaxCondOf("int", n) : n \in (0 - 1)..1}
    \cup {MaxCondOf("float", 1)}
    \cup {ConvCondOf("float", t) : t \in {0 - 1, 50, 101}}
    \cup {UnresolvedCond(k) : k \in {"unknown", "foreign"}}

ControllerClasses == {"IterationController", "unknown", "foreign"}

InitSubmit ==
    \E pool \in SubmitPools, cond \in SubmitConds, cls \in ControllerClasses :
        InitWith([Config(pool, cond, FALSE, MaxCeiling, TRUE) EXCEPT !.controller_class = cls])

NextSubmit == NextCond

SpecSubmit == InitSubmit /\ [][NextSubmit]_vars

\* ------------------------------------------------ re-entering the loop
\* The end-to-end pool under max_iterations = MaxCeiling, every agent answering
\* as expected, with run_iteration_loop invoked again while the loop runs.
InitReenter == InitWith(Config(PoolDisjoint, MaxCond(MaxCeiling), FALSE, MaxCeiling + 1, TRUE))

NextReenter ==
    \/ NextCond
    \/ Reenter

SpecReenter == InitReenter /\ [][NextReenter]_vars

\* --------------------------------------------------------- revision rounds
\* Two proposers and a critic under a condition that never fires, each request
\* answered with the expected kind (with or without text) or not in time.
ReviseRepliesFor(request_type) ==
    {r \in RepliesFor(request_type) :
        /\ r.mtype \in {"TIMEOUT",
                        IF request_type = "CRITIQUE_REQUEST" THEN "CRITIQUE" ELSE "PROPOSAL"}
        /\ ProposalText(r.content) \in {"", IF request_type = "TASK_PROMPT" THEN "p" ELSE "qq"}}

ResolveRevise(a) ==
    /\ calls[a].st = "inflight"
    /\ \E reply \in ReviseRepliesFor(outbox[a].mtype) :
           calls' = [calls EXCEPT ![a] = [st |-> "done", reply |-> reply]]
    /\ UNCHANGED <<cfg, taskVars, ctrlVars, outbox, sent, caller, loopVars>>
    /\ UNCHANGED <<raised, reentries, netVars>>

InitRevise == InitWith(Config(PoolDisjoint, CustomCond({}), FALSE, MaxCeiling + 1, TRUE))

NextRevise ==
    \/ submit_task
    \/ run_iteration_loop
    \/ NextIteration
    \/ \E a \in Agents : ResolveRevise(a)
    \/ GatherProposals
    \/ GatherCritiques
    \/ RunTaskReturns

SpecRevise == InitRevise /\ [][NextRevise]_vars

\* ------------------------------------------------ built-in capabilities
\* The specialised agents: a built-in capability map extended with the map the
\* caller supplies, then validated by BaseAgent.
\* None as an item of a list.
NoneItem == "<None>"

\* core_capabilities of CriticAgent.__init__ and CoderAgent.__init__.
CriticCore == [task_types |-> ListVal(<<"critique">>), roles |-> ListVal(<<"critic">>)]
CoderCore == [task_types |-> ListVal(<<"code_generation", "debugging">>),
              skills |-> ListVal(<<"python", "javascript">>)]
CoreCapabilities(cls) == IF cls = "CriticAgent" THEN CriticCore ELSE CoderCore

RECURSIVE Extended(_, _)
\* list.extend(item for item in value if item not in list)
Extended(list, value) ==
    IF value = <<>> THEN list
    ELSE Extended(IF Head(value) \in Range(list) THEN list ELSE Append(list, Head(value)),
                  Tail(value))

\* The merge loop of the two constructors: a supplied list extends a built-in
\* list; anything else replaces the built-in value.
MergedCapabilities(core_capabilities, capabilities) ==
    [key \in DOMAIN core_capabilities \cup DOMAIN capabilities |->
        IF key \notin DOMAIN capabilities THEN core_capabilities[key]
        ELSE IF /\ capabilities[key].isList
                /\ key \in DOMAIN core_capabilities
                /\ core_capabilities[key].isList
             THEN ListVal(Extended(core_capabilities[key].items, capabilities[key].items))
             ELSE capabilities[key]]

\* BaseAgent._validate_capabilities: roles, skills and task_types that are not
\* lists are wrapped in one.
_validate_capabilities(capabilities) ==
    [key \in DOMAIN capabilities |->
        IF key \in {"roles", "skills", "task_types"} /\ ~capabilities[key].isList
        THEN ListVal(IF capabilities[key].isNone THEN <<NoneItem>>
                     ELSE capabilities[key].items)
        ELSE capabilities[key]]

\* LLMAgent.__init__: model_family is added when absent (the default models of
\* the two classes name their provider).
WithModelFamily(cls, capabilities) ==
    IF "model_family" \in DOMAIN capabilities THEN capabilities
    ELSE [key \in DOMAIN capabilities \cup {"model_family"} |->
             IF key = "model_family"
             THEN ScalarVal(IF cls = "CriticAgent" THEN "anthropic" ELSE "openai")
             ELSE capabilities[key]]

\* get_capabilities() of a freshly constructed cls(capabilities=capabilities).
BuiltCapabilities(cls, capabilities) ==
    WithModelFamily(cls,
        _validate_capabilities(MergedCapabilities(CoreCapabilities(cls), capabilities)))

\* Capability maps a caller supplies to a specialised agent.
SuppliedChoices ==
    {EmptyMap,
     [roles |-> ListVal(<<"auditor">>)],
     [roles |-> ListVal(<<"critic", "auditor">>)],
     [roles |-> ListVal(<<>>)],
     [roles |-> ScalarVal("auditor")],
     [roles |-> NoneVal],
     [task_types |-> ListVal(<<"review">>)],
     [task_types |-> ScalarVal("review")],
     [skills |-> ListVal(<<"rust", "python">>)],
     [skills |-> ScalarVal("rust")],
     [domain |-> ScalarVal("math")],
     [domain |-> ListVal(<<"math">>)],
     [roles |-> ListVal(<<"auditor">>), skills |-> ScalarVal("rust")]}

AgentClasses == {"CriticAgent", "CoderAgent"}

\* cls(agent_id, capabilities) followed by AgentManager.add_agent: the agent
\* joins the candidates with its built capabilities.
NewAgent(cls, capabilities) ==
    /\ caller = "idle"
    /\ Len(cfg.pool) < MaxPool
    /\ LET agent_id == AgentIds[Len(cfg.pool) + 1]
       IN  /\ cfg' = [cfg EXCEPT !.pool =
                          Append(@, [id |-> agent_id,
                                     caps |-> BuiltCapabilities(cls, capabilities)])]
           /\ _agents' = Registered(cfg'.pool)
           /\ last_call' = [op |-> cls, agent_id |-> agent_id,
                            core_capabilities |-> CoreCapabilities(cls),
                            capabilities |-> capabilities]
    /\ UNCHANGED <<taskVars, ctrlVars, wireVars, caller, loopVars, raised, reentries,
                   _is_running, lifeVars>>

\* A task for coders reviewed by critics.
CoderReqs == [proposer_capabilities |-> [task_types |-> ListVal(<<"code_generation">>)],
              critic_capabilities |-> DefaultCriticReqs]

InitCaps ==
    InitWith([Config(<<>>, MaxCond(1), TRUE, 1, TRUE) EXCEPT !.requirements = CoderReqs])

NextCaps ==
    \/ \E cls \in AgentClasses, capabilities \in SuppliedChoices : NewAgent(cls, capabilities)
    \/ submit_task

SpecCaps == InitCaps /\ [][NextCaps]_vars

\* -------------------------------------------------------- registry query
\* [agent_value] for a scalar, the list itself otherwise (line 749).
AgentList(agent_value) ==
    IF agent_value.isList THEN agent_value.items
    ELSE IF agent_value.isNone THEN <<NoneItem>>
    ELSE agent_value.items

\* The test of AgentManager.get_agents_with_capability on one agent: the key
\* must be present; a required list matches on any common item, a required
\* scalar by membership in the agent's list or by equality.
HasCapability(agent_caps, capability_key, capability_value) ==
    /\ capability_key \in DOMAIN agent_caps
    /\ LET agent_value == agent_caps[capability_key]
       IN  IF capability_value.isList
           THEN \E i \in 1..Len(capability_value.items) :
                    capability_value.items[i] \in Range(AgentList(agent_value))
           ELSE IF agent_value.isList
                THEN \E i \in 1..Len(AgentList(capability_value)) :
                         AgentList(capability_value)[i] \in Range(agent_value.items)
                ELSE agent_value = capability_value

\* The ids of the registered agents passing the test, in registration order.
RECURSIVE MatchingAgents(_, _, _)
MatchingAgents(pool, capability_key, capability_value) ==
    IF pool = <<>> THEN <<>>
    ELSE IF HasCapability(Head(pool).caps, capability_key, capability_value)
         THEN <<Head(pool).id>> \o MatchingAgents(Tail(pool), capability_key, capability_value)
         ELSE MatchingAgents(Tail(pool), capability_key, capability_value)

\* AgentManager.get_agents_with_capability(capability_key, capability_value).
get_agents_with_capability(capability_key, capability_value) ==
    /\ last_call' = [op |-> "get_agents_with_capability",
                     capability_key |-> capability_key,
                     capability_value |-> capability_value,
                     result |-> MatchingAgents(cfg.pool, capability_key, capability_value)]
    /\ UNCHANGED <<cfg, taskVars, ctrlVars, wireVars, caller, loopVars, raised, reentries,
                   _agents, _is_running, lifeVars>>

\* Registered capability maps: roles a list (possibly empty), other keys a
\* scalar, a list or None, and maps without the key.
QueryCapsChoices ==
    {EmptyMap, ProposerCaps, BothCaps,
     [roles |-> ListVal(<<>>)],
     [domain |-> ScalarVal("math")],
     [domain |-> NoneVal],
     [domain |-> ListVal(<<"math", "code">>)],
     [roles |-> ListVal(<<"critic">>), domain |-> ScalarVal("code")]}

QueryKeys == {"roles", "domain", "skills"}

\* Required values: scalars and lists, among them the empty list and a list
\* holding None.
QueryValues ==
    {ScalarVal("proposer"), ScalarVal("math"), ScalarVal("critic"),
     ListVal(<<"critic">>), ListVal(<<"math", "proposer">>), ListVal(<<"code">>),
     ListVal(<<>>), ListVal(<<NoneItem>>)}

QueryPools ==
    UNION {{[i \in 1..n |-> [id |-> AgentIds[i], caps |-> c[i]]] : c \in [1..n -> QueryCapsChoices]}
               : n \in 0..MaxPool}

InitQuery == \E pool \in QueryPools : InitWith(Config(pool, MaxCond(1), TRUE, 1, TRUE))

NextQuery ==
    \E capability_key \in QueryKeys, capability_value \in QueryValues :
        get_agents_with_capability(capability_key, capability_value)

SpecQuery == InitQuery /\ [][NextQuery]_vars

\* ------------------------------------------------------------ termination
\* The event loop runs every task that is ready: the scheduled loop starts,
\* the sleep between rounds ends, a per-agent call returns or hits its
\* wait_for timeout, and a gather whose tasks have all ended returns.
LoopFairness ==
    /\ WF_vars(run_iteration_loop)
    /\ WF_vars(NextIteration)
    /\ \A a \in Agents : WF_vars(Resolve(a))
    /\ WF_vars(GatherProposals)
    /\ WF_vars(GatherCritiques)

\* One proposer and one critic under a condition that never fires, a fixed
\* round count, the convergence condition and a condition that raises at its
\* second check; and a lone proposer whose task input cannot be sent.
TermConfigs ==
    {Config(PoolPair, c, FALSE, MaxCeiling, TRUE) :
         c \in {CustomCond({}), MaxCond(1), ConvCond(50), RaisingCond({1})}}
    \cup {Config(PoolSolo, CustomCond({}), TRUE, 1, FALSE)}

InitTerm == \E c \in TermConfigs : InitWith(c)

SpecTerm == InitTerm /\ [][Next]_vars /\ LoopFairness

\* --------------------------------------------------- start and stop racing
\* start() and stop() called on the agents from concurrent tasks: stop() is
\* suspended at `await self._processing_task` until the cancelled loop has
\* ended, and other calls run in between.
\* stop() up to its await: the flag is cleared, the loop cancelled and awaited.
stop_begins(agent_id) ==
    /\ agent_id \in DOMAIN _agents
    /\ _is_running[agent_id]
    /\ _processing_task[agent_id] # 0
    /\ _is_running' = [_is_running EXCEPT ![agent_id] = FALSE]
    /\ awaited' = [awaited EXCEPT ![agent_id] = @ \cup {_processing_task[agent_id]}]
    /\ UNCHANGED <<cfg, taskVars, ctrlVars, wireVars, caller, loopVars, raised, reentries,
                   _agents, last_call, _processing_task, loops>>

\* A cancelled _message_loop is resumed with CancelledError and ends.
loop_cancelled(agent_id, t) ==
    /\ t \in loops[agent_id] \cap awaited[agent_id]
    /\ loops' = [loops EXCEPT ![agent_id] = @ \ {t}]
    /\ UNCHANGED <<cfg, taskVars, ctrlVars, wireVars, caller, loopVars, raised, reentries,
                   _agents, last_call, _is_running, _processing_task, awaited>>

\* stop() resumes after its await: self._processing_task = None.
stop_resumes(agent_id, t) ==
    /\ t \in awaited[agent_id] \ loops[agent_id]
    /\ awaited' = [awaited EXCEPT ![agent_id] = @ \ {t}]
    /\ _processing_task' = [_processing_task EXCEPT ![agent_id] = 0]
    /\ UNCHANGED <<cfg, taskVars, ctrlVars, wireVars, caller, loopVars, raised, reentries,
                   _agents, last_call, _is_running, loops>>

\* The loops of the agent that run: not ended and not cancelled.
LiveLoops(agent_id) == loops[agent_id] \ awaited[agent_id]

\* Two registered agents, started.
InitLife == InitWith(Config(PoolOverlap, MaxCond(1), TRUE, 1, TRUE))

NextLife ==
    \/ \E agent_id \in NetIds : start(agent_id)
    \/ \E agent_id \in NetIds : stop_begins(agent_id)
    \/ \E agent_id \in NetIds, t \in 1..MaxLoops : loop_cancelled(agent_id, t)
    \/ \E agent_id \in NetIds, t \in 1..MaxLoops : stop_resumes(agent_id, t)

SpecLife == InitLife /\ [][NextLife]_vars

\* ---------------------------------------------------------------- results
\* A lookup that hands out whatever is stored.
get_resultAnyStatus == results

\* TaskManager.get_result(task_id) for the submitted task: task.results when
\* the status is completed or converged, None otherwise.
get_result == IF status \in {"completed", "converged"} THEN results ELSE NoneData

\* ================================================================== claims
\* C1: once the task status is completed, converged, failed or failed_timeout,
\* no later step changes it to a different value.
C1_TerminalStatusKept == [][(status \in Terminal) => (status' = status)]_vars

\* C2: on every exit of run_iteration_loop the controller is removed from the
\* TaskManager's active controllers and the single-run guard is false again.
C2_ExitRetiresController ==
    pc = "done" => (TaskId \notin _iteration_controllers /\ ~_task_running)

\* C3: once the task is failed_timeout, the controller starts no new round:
\* the round counter is not incremented again.
C3_NoRoundAfterTimeout ==
    [][status = "failed_timeout" => (iteration_num' = iteration_num)]_vars

\* C4: at no time are two process() invocations of one agent in progress.
C4_ProcessSerialized == \A a \in Agents : InProcess(a) <= 1

\* C5: when the gather of a phase returns, _collect_responses holds exactly the
\* agents that replied with the expected message kind.
C5_ValidAreExpectedKind ==
    (pc \in {"propose", "critique"} /\ GatherResolved) =>
        LET expected == IF pc = "propose" THEN "PROPOSAL" ELSE "CRITIQUE"
        IN  {r.agent_id : r \in Range(_collect_responses(expected))}
                = {a \in Range(recipients) : calls[a].reply.mtype = expected}

\* C6: the controller dispatches the requests of the next phase only when no
\* per-agent call of the current phase is unresolved.
C6_NoPartialPhaseAdvance ==
    [][sent' # sent => (\A a \in Agents : calls[a].st # "inflight")]_vars

\* A request of a later phase went out and is being answered.
C6_Witness ==
    /\ sent >= 3
    /\ pc = "propose"
    /\ \E a \in Agents : calls[a].st = "done"
    /\ \E a \in Agents : calls[a].st = "inflight"

\* C7 as stated: in the end-to-end scenario the run ends after two recorded
\* rounds with the task completed and the result of round 2's first proposal.
C7_EndsCompleted ==
    pc = "done" =>
        /\ status = "completed"
        /\ Len(history) = 2
        /\ results = history[2].proposals[1].response_data

\* C7 amended: in the end-to-end scenario round 2 is a revision round prompting
\* both proposers, and the run ends after two recorded rounds with the task
\* converged and the result of round 2's first-listed proposal.
C7_EndsConverged ==
    /\ (iteration_num = 2 /\ pc = "propose") =>
           /\ recipients = <<"a1", "a2">>
           /\ \A a \in {"a1", "a2"} : outbox[a].mtype = "REVISION_REQUEST"
    /\ iteration_num <= 2
    /\ pc = "done" =>
           /\ status = "converged"
           /\ Len(history) = 2
           /\ Len(history[2].proposals) = 2
           /\ results = history[2].proposals[1].response_data
           /\ ProposalText(results) # ""

C7_Witness == pc = "done" /\ iteration_num = 2 /\ status = "converged"

\* C8: when a round N >= 2 is entered and the entry of round N-1 holds no
\* critiques, the loop ends without a request and without a new entry, the task
\* is completed and its result is the first proposal payload of the latest round.
C8_NoCritiquesExit ==
    [][(pc = "sleep" /\ iteration_num' # iteration_num
            /\ history[Len(history)].critiques = <<>>) =>
          /\ pc' = "done"
          /\ sent' = sent
          /\ \A a \in Agents : calls'[a].st = "idle"
          /\ history' = history
          /\ status' = "completed"
          /\ results' = history[Len(history)].proposals[1].response_data]_vars

C8_Witness ==
    /\ pc = "done"
    /\ iteration_num = 2
    /\ Len(history) = 1
    /\ history[1].critiques = <<>>
    /\ status = "completed"

\* The state before round 1 satisfies the configured stopping condition.
PreRoundStop ==
    check(cfg.cond, [current_iteration |-> 0, history |-> <<>>, task_status |-> "running"])

\* C9: if the stopping condition is true on the pre-round-1 state, the run marks
\* the task completed and exits: no request is ever dispatched, the round
\* counter stays 0 and the history stays empty.
C9_PreRoundStopRunsNothing ==
    PreRoundStop =>
        /\ sent = 0
        /\ iteration_num = 0
        /\ history = <<>>
        /\ pc \in {"none", "scheduled", "done"}
        /\ pc = "done" => status = "completed"

C9_Witness == PreRoundStop /\ pc = "done" /\ status = "completed" /\ caller = "returned"

\* C10: the status becomes converged only in the step that appends a round
\* entry and finds the stopping condition true on the state after that round.
C10_ConvergedOnlyAfterRound ==
    [][(status' = "converged" /\ status # "converged") =>
          /\ history' = Append(history, iteration_log')
          /\ Len(history') = iteration_num
          /\ check(cfg.cond, [current_iteration |-> iteration_num, history |-> history',
                              task_status |-> status])]_vars

C10_Witness == status = "converged" /\ pc = "done" /\ Len(history) = 2

\* C11: a propose/revise phase that yields no proposal with non-empty content
\* ends the task as failed: no critique phase and no further round follow.
C11_NoUsableProposalFails ==
    [][(pc = "propose" /\ pc' # "propose" /\ WithText(iteration_log'.proposals) = <<>>) =>
          (status' = "failed" /\ pc' = "done")]_vars

\* C12: with anonymization enabled, the proposal entries of every
\* CRITIQUE_REQUEST hold the content and a display id and no agent id.
C12_CritiqueRequestAnonymous ==
    cfg.anonymity =>
        \A a \in Agents :
            outbox[a].mtype = "CRITIQUE_REQUEST" =>
                \A i \in 1..Len(outbox[a].proposals) :
                    /\ outbox[a].proposals[i].agent_id \notin Agents
                    /\ outbox[a].proposals[i].display_id \in DisplayIds
                    /\ outbox[a].proposals[i].proposal \notin Agents

C12_Witness ==
    /\ cfg.anonymity
    /\ \E a \in Agents :
           /\ calls[a].st = "inflight"
           /\ outbox[a].mtype = "CRITIQUE_REQUEST"
           /\ Len(outbox[a].proposals) = 2

\* C13: the critics that receive a CRITIQUE_REQUEST are the critic set minus the
\* authors of the usable proposals of the request, or the whole critic set when
\* that difference is empty, whatever the display ids drawn.
C13_EligibleCriticsByRealId ==
    [][(pc = "propose" /\ pc' = "critique") =>
          LET authors == {x.agent_id : x \in Range(WithText(iteration_log'.proposals))}
              others == Range(critic_agents) \ authors
          IN  Range(recipients') = IF others = {} THEN Range(critic_agents) ELSE others]_vars

\* C14: the round counter starts at 0 and grows by 1 per loop iteration, the
\* k-th history entry carries round number k, and the history is as long as the
\* round counter, or one shorter while the round is in progress or when the
\* last iteration ended before appending its entry.
C14_RoundNumbering ==
    /\ [](/\ iteration_num >= 0
          /\ \A k \in 1..Len(history) : history[k].iteration = k
          /\ Len(history) \in {iteration_num, iteration_num - 1}
          /\ pc \in {"none", "scheduled"} => iteration_num = 0
          /\ pc \in {"propose", "critique"} => Len(history) = iteration_num - 1
          /\ pc = "sleep" => Len(history) = iteration_num
          /\ (pc = "done" /\ Len(history) = iteration_num - 1) =>
                 status \in {"failed", "completed"}
          /\ (pc = "done" /\ status = "converged") => Len(history) = iteration_num)
    /\ [][iteration_num' \in {iteration_num, iteration_num + 1}]_vars

\* Two rounds were recorded and a third ended early.
C14_Witness ==
    /\ pc = "done"
    /\ iteration_num = 2
    /\ Len(history) = 1
    /\ history[1].iteration = 1

\* The payload the result selection is required to return: the first-listed
\* proposal of the most recent round holding a proposal with content, or none.
RECURSIVE FirstOfLastUsableRound(_)
FirstOfLastUsableRound(hist) ==
    IF hist = <<>> THEN NoneData
    ELSE IF WithText(hist[Len(hist)].proposals) # <<>>
         THEN hist[Len(hist)].proposals[1].response_data
         ELSE FirstOfLastUsableRound(SubSeq(hist, 1, Len(hist) - 1))

\* C15: when the loop exits without failure, the task result is the payload of
\* the first-listed proposal of the most recent round with a usable proposal,
\* and none if no recorded round has one.
C15_ResultFromLastUsableRound ==
    (pc = "done" /\ status \in {"completed", "converged"}) =>
        results = FirstOfLastUsableRound(history)

\* C16: in every terminal state of a run the task record's history holds every
\* round entry the controller appended, in order, and no step removes or
\* changes a recorded entry.
C16_HistoryPreserved ==
    /\ [](pc = "done" => task_history = history)
    /\ [][/\ Len(history') >= Len(history)
          /\ SubSeq(history', 1, Len(history)) = history]_vars

\* A fault after recorded rounds.
C16_Witness ==
    /\ pc = "done"
    /\ status = "failed"
    /\ results = ErrorResult
    /\ Len(task_history) = 2

\* The candidates of the submitted pool matching a requirement map.
Candidates(req) ==
    {cfg.pool[i].id : i \in {k \in 1..Len(cfg.pool) : _matches_requirements(cfg.pool[k].caps, req)}}

\* C17: allocation fails exactly when no candidate satisfies the proposer
\* requirements; otherwise the proposer set is non-empty and the critic set is
\* disjoint from it, unless every critic-matching candidate is also a proposer,
\* in which case it is the full critic-matching set.
C17_AllocationShape ==
    LET proposing == Candidates(cfg.requirements.proposer_capabilities)
        critiquing == Candidates(cfg.requirements.critic_capabilities)
    IN  caller # "idle" =>
            /\ (status = "failed") <=> (proposing = {})
            /\ status = "running" =>
                   /\ proposer_agents # <<>>
                   /\ Range(proposer_agents) = proposing
                   /\ IF critiquing \subseteq proposing
                      THEN Range(critic_agents) = critiquing
                      ELSE /\ Range(critic_agents) \cap Range(proposer_agents) = {}
                           /\ Range(critic_agents) = critiquing \ proposing

\* The fallback: the critics are proposers.
C17_Witness ==
    /\ status = "running"
    /\ critic_agents # <<>>
    /\ Range(critic_agents) \subseteq Range(proposer_agents)

\* The match as required: every required key is present on the agent's side
\* and its values meet the required ones.
RequiredMatch(caps, req) ==
    \A key \in DOMAIN req :
        /\ key \in DOMAIN caps
        /\ IF req[key].isList
           THEN Range(req[key].items) \cap Range(caps[key].items) # {}
           ELSE IF caps[key].isList
                THEN req[key].items[1] \in Range(caps[key].items)
                ELSE caps[key].items[1] = req[key].items[1]

\* C18: _matches_requirements is true iff every required key is present on the
\* agent's side and the value sets intersect (required set), the scalar is a
\* member (agent set) or the scalars are equal; the proposers allocated are
\* exactly the candidates matching in that sense.
C18_MatchesAsRequired ==
    /\ \A i \in 1..Len(cfg.pool) :
           \A req \in {cfg.requirements.proposer_capabilities,
                       cfg.requirements.critic_capabilities} :
               /\ _matches_requirements(cfg.pool[i].caps, req)
                      <=> RequiredMatch(cfg.pool[i].caps, req)
               /\ _matches_requirements(cfg.pool[i].caps, EmptyMap)
               /\ \A key \in DOMAIN req :
                      key \notin DOMAIN cfg.pool[i].caps
                          => ~_matches_requirements(cfg.pool[i].caps, req)
    /\ status = "running" =>
           Range(proposer_agents) =
               {cfg.pool[i].id : i \in {k \in 1..Len(cfg.pool) :
                   RequiredMatch(cfg.pool[k].caps, cfg.requirements.proposer_capabilities)}}

\* One of two candidates was allocated on a scalar requirement.
C18_Witness ==
    /\ status = "running"
    /\ Len(cfg.pool) = 2
    /\ Len(proposer_agents) = 1
    /\ cfg.requirements.proposer_capabilities = [domain |-> ScalarVal("math")]

\* C19: constructing the fixed-round-count condition fails on a non-positive or
\* non-integer max_iterations; otherwise its check is false for every round
\* number below max_iterations, 0 included, and true at or above it.
C19_MaxIterationsCheck ==
    cfg.cond.kind = "max" =>
        LET n == cfg.cond.max_iterations
            constructible == cfg.cond.arg_type = "int" /\ n > 0
        IN  /\ (caller # "idle" /\ ~constructible) => (status = "failed" /\ pc = "none")
            /\ (caller # "idle" /\ constructible) => status # "pending" /\ pc # "none"
            /\ constructible =>
                   /\ \A k \in 0..(MaxCeiling + 2) :
                          check(cfg.cond, [current_iteration |-> k, history |-> history,
                                           task_status |-> status]) <=> (k >= n)
                   /\ pc = "sleep" => iteration_num < n
                   /\ pc = "done" => (status = "converged" /\ iteration_num = n)

C19_Witness ==
    /\ cfg.cond = MaxCond(2)
    /\ pc = "done"
    /\ status = "converged"
    /\ iteration_num = 2

\* The first proposal texts of the last two recorded rounds are identical and
\* not empty.
SameFirstTexts ==
    /\ Len(history) >= 2
    /\ history[Len(history)].proposals # <<>>
    /\ history[Len(history) - 1].proposals # <<>>
    /\ ProposalText(history[Len(history)].proposals[1].response_data) # ""
    /\ ProposalText(history[Len(history)].proposals[1].response_data)
           = ProposalText(history[Len(history) - 1].proposals[1].response_data)

\* C20: the convergence condition's check is false while the history holds
\* fewer than two rounds, for every threshold in [0,1], and true for every such
\* threshold when the first proposal texts of the last two rounds are identical
\* and not empty.
C20_ConvergenceCheck ==
    (cfg.cond.kind = "conv" /\ ThresholdValid(cfg.cond.arg_type, cfg.cond.threshold)) =>
        /\ Len(history) < 2 =>
               /\ \A t \in Thresholds :
                      ~check(ConvCond(t), _get_iteration_state(history))
               /\ status # "converged"
        /\ SameFirstTexts =>
               /\ \A t \in Thresholds :
                      check(ConvCond(t), _get_iteration_state(history))
               /\ pc \notin {"sleep", "propose", "critique"}
               /\ pc = "done" => status = "converged"

C20_Witness ==
    /\ cfg.cond = ConvCond(100)
    /\ SameFirstTexts
    /\ pc = "done"
    /\ status = "converged"
    /\ Len(history) = 2

\* A round's proposal list gives the convergence condition nothing to compare:
\* it is empty, or its first proposal has no proposal text.
NoUsableProposal(proposals) ==
    proposals = <<>> \/ ProposalText(proposals[1].response_data) = ""

\* C21: at every admissible threshold (0 included), when either of the last two
\* recorded rounds has no usable proposal the convergence check is false, and
\* the task is never converged on such a history.
C21_NoConvergenceOnMissingData ==
    (/\ Len(history) >= 2
     /\ \/ NoUsableProposal(history[Len(history) - 1].proposals)
        \/ NoUsableProposal(history[Len(history)].proposals))
    => /\ \A t \in Thresholds : ~check(ConvCond(t), _get_iteration_state(history))
       /\ status # "converged"

\* C22: a call of a built-in condition's check changes neither the condition's
\* own fields nor the iteration state it was passed (round counter, history,
\* task status), and its verdict is the one the passed state alone determines,
\* however many checks came before: the step that records a round and checks
\* leaves the condition as configured, the counter as it was and the history as
\* recorded, and ends converged exactly when the check of that state is true.
C22_CheckIsPure ==
    /\ [][cfg'.cond = cfg.cond]_vars
    /\ [][(cfg.cond.kind \in {"max", "conv"} /\ Len(history') = Len(history) + 1) =>
              LET passed == [current_iteration |-> iteration_num, history |-> history',
                             task_status |-> status]
              IN  /\ iteration_num' = passed.current_iteration
                  /\ history' = Append(history, iteration_log')
                  /\ status' \in {passed.task_status, "converged", "completed"}
                  /\ (status' = "converged") <=> check(cfg.cond, passed)
                  /\ \A st \in Terminal :
                         check(cfg.cond, [passed EXCEPT !.task_status = st])
                             <=> check(cfg.cond, passed)]_vars

\* Both verdicts of the same condition object: after a round it let pass, the
\* convergence condition stops the second round.
C22_Witness ==
    /\ cfg.cond.kind = "conv"
    /\ Len(history) = 2
    /\ status = "converged"
    /\ ~check(cfg.cond, [current_iteration |-> 1, history |-> SubSeq(history, 1, 1),
                         task_status |-> "running"])

\* A step of send: the latest call is a send and neither the registry nor a
\* running flag changed.
SendStep ==
    /\ last_call'.op = "send"
    /\ _agents' = _agents
    /\ _is_running' = _is_running

\* C23: a send to the wildcard '*' ends without an error and puts one message
\* into the inbox of every registered running agent other than the sender, and
\* none into any other inbox, the sender's included.
C23_WildcardReachesAllOthers ==
    [][(SendStep /\ last_call'.recipient_id = <<"*">>) =>
          /\ last_call'.error = ""
          /\ \A a \in Agents :
                 inbox'[a] = inbox[a] +
                     (IF a \in DOMAIN _agents /\ _is_running[a] /\ a # last_call'.sender_id
                      THEN 1 ELSE 0)]_vars

\* C24: a send to a non-empty list of recipient ids hands the message to every
\* listed id that is registered, wherever the unregistered ids sit in the list
\* (each running recipient takes it into its inbox, no other inbox changes), and
\* it fails, with AgentNotFoundError, exactly when no listed id is registered.
C24_ListDeliveryIsIndependent ==
    [][(SendStep /\ "*" \notin Range(last_call'.recipient_id)) =>
          LET recipient_ids == last_call'.recipient_id
              known == Range(recipient_ids) \cap DOMAIN _agents
          IN  /\ recipient_ids # <<>>
              /\ Range(last_call'.delivered_to) = known
              /\ \A a \in Agents :
                     inbox'[a] = inbox[a] + (IF a \in known /\ _is_running[a] THEN 1 ELSE 0)
              /\ (last_call'.error = "AgentNotFoundError") <=> (known = {})
              /\ last_call'.error \in {"", "AgentNotFoundError"}]_vars

\* A list with an unknown id between two running agents: the send succeeded
\* and the message is in both agents' inboxes.
C24_Witness ==
    /\ last_call.op = "send"
    /\ Len(last_call.recipient_id) = 3
    /\ last_call.recipient_id[2] \notin DOMAIN _agents
    /\ last_call.delivered_to = <<last_call.recipient_id[1], last_call.recipient_id[3]>>
    /\ last_call.error = ""
    /\ \A i \in {1, 3} : /\ _is_running[last_call.recipient_id[i]]
                         /\ inbox[last_call.recipient_id[i]] = 1

\* C25: add_agent with an id already registered fails and leaves the registry
\* (the agent object under that id included) as it is; remove_agent with an id
\* not registered fails with AgentNotFoundError and leaves the registry as it
\* is; otherwise the call registers or removes that id alone, so that every id
\* stands for at most one agent object.
C25_RegistryKeepsOneAgentPerId ==
    /\ [](\A a \in DOMAIN _agents : _agents[a] \in AgentObjects)
    /\ [][(last_call'.op = "add_agent" /\ last_call' # last_call) =>
             LET agent_id == last_call'.sender_id
             IN  IF agent_id \in DOMAIN _agents
                 THEN last_call'.error = "AgentError" /\ _agents' = _agents
                 ELSE /\ last_call'.error = ""
                      /\ DOMAIN _agents' = DOMAIN _agents \cup {agent_id}
                      /\ _agents'[agent_id] = last_call'.agent
                      /\ \A a \in DOMAIN _agents : _agents'[a] = _agents[a]]_vars
    /\ [][(last_call'.op = "remove_agent" /\ last_call' # last_call) =>
             LET agent_id == last_call'.sender_id
             IN  IF agent_id \notin DOMAIN _agents
                 THEN last_call'.error = "AgentNotFoundError" /\ _agents' = _agents
                 ELSE /\ last_call'.error = ""
                      /\ DOMAIN _agents' = DOMAIN _agents \ {agent_id}
                      /\ \A a \in DOMAIN _agents' : _agents'[a] = _agents[a]]_vars

\* A second object was offered under a registered id and refused, and the id
\* still stands for the first one.
C25_Witness ==
    /\ last_call.op = "add_agent"
    /\ last_call.error = "AgentError"
    /\ last_call.sender_id \in DOMAIN _agents
    /\ _agents[last_call.sender_id] # last_call.agent

\* Allocation finds no proposer for the submitted task.
AllocationFails == allocate(cfg.requirements, cfg.pool).proposers = <<>>

\* The stopping condition cannot be built from the submitted configuration:
\* its class name names no stopping condition, or its parameters are invalid.
ConditionUnresolved ==
    \/ cfg.cond.kind \in {"unknown", "foreign"}
    \/ cfg.cond.kind = "max" /\ ~(cfg.cond.arg_type = "int" /\ cfg.cond.max_iterations > 0)
    \/ cfg.cond.kind = "conv" /\ ~(cfg.cond.arg_type \in {"int", "float"}
                                   /\ cfg.cond.threshold \in 0..100)

\* The controller class name names no iteration controller.
ControllerUnresolved == cfg.controller_class # "IterationController"

\* C26: when allocation fails, or the stopping condition or the controller
\* cannot be resolved, submit_task raises to its caller, the task is failed, no
\* controller is registered for it and no round ever runs: no request goes to
\* any agent.  Otherwise the task is accepted without an error.
C26_FailedSubmissionRunsNothing ==
    caller # "idle" =>
        IF AllocationFails \/ ConditionUnresolved \/ ControllerUnresolved
        THEN /\ raised # ""
             /\ status = "failed"
             /\ TaskId \notin _iteration_controllers
             /\ pc = "none"
             /\ ~_task_running
             /\ iteration_num = 0 /\ history = <<>>
             /\ sent = 0
             /\ \A a \in Agents : outbox[a] = NoMsg /\ calls[a] = IdleCall
        ELSE raised = "" /\ pc # "none"

\* A submission with an unresolvable stopping-condition name (allocation and
\* controller being fine) was refused.
C26_Witness ==
    /\ caller = "returned"
    /\ cfg.cond.kind = "unknown"
    /\ ~AllocationFails
    /\ ~ControllerUnresolved
    /\ raised = "ConfigurationError"
    /\ status = "failed"

\* C27: with a proposer allocated, a submission with invalid stopping-condition
\* parameters or with an unknown stopping-condition or controller name fails
\* with ConfigurationError, the task failed and no loop scheduled under any
\* default strategy or parameters.
C27_InvalidConfigurationError ==
    (caller # "idle" /\ ~AllocationFails /\ (ConditionUnresolved \/ ControllerUnresolved)) =>
        /\ raised = "ConfigurationError"
        /\ status = "failed"
        /\ pc = "none"

\* C28: an invocation of run_iteration_loop made while the controller's first
\* invocation is in progress returns as a no-op: it fails nothing, dispatches no
\* request and changes neither the round counter, the history, the task status
\* nor the guard; and the first invocation goes on as if it had not happened,
\* ending converged after exactly max_iterations rounds.
C28_SecondInvocationIsNoOp ==
    /\ [][(reentries' # reentries) =>
             /\ pc \in {"propose", "critique", "sleep"} /\ pc' = pc
             /\ UNCHANGED <<iteration_num, history, _task_running>>
             /\ UNCHANGED <<status, error_info, completed_at, results, task_history>>
             /\ UNCHANGED <<sent, outbox, calls, recipients>>
             /\ UNCHANGED <<cfg, last_proposals_map, iteration_log, _iteration_controllers>>]_vars
    /\ [](pc \in {"propose", "critique", "sleep"} => _task_running /\ status = "running")
    /\ [](pc = "done" => /\ status = "converged"
                         /\ iteration_num = cfg.cond.max_iterations
                         /\ Len(history) = cfg.cond.max_iterations
                         /\ sent = 2 * cfg.cond.max_iterations)

\* The loop was invoked again during its first round and still ran to its end.
C28_Witness ==
    /\ reentries >= 1
    /\ pc = "done"
    /\ status = "converged"
    /\ Len(history) = cfg.cond.max_iterations

\* The text of agent a's usable output in a recorded round ("" for none).
OutputIn(a, entry) ==
    LET hits == {i \in 1..Len(entry.proposals) :
                    /\ entry.proposals[i].agent_id = a
                    /\ ProposalText(entry.proposals[i].response_data) # ""}
    IN  IF hits = {} THEN ""
        ELSE ProposalText(entry.proposals[CHOOSE i \in hits : TRUE].response_data)

\* Agent a's last-known-good output: its usable output of the latest recorded
\* round in which it had one ("" for none).
RECURSIVE LastGood(_, _)
LastGood(a, hist) ==
    IF hist = <<>> THEN ""
    ELSE IF OutputIn(a, hist[Len(hist)]) # "" THEN OutputIn(a, hist[Len(hist)])
    ELSE LastGood(a, SubSeq(hist, 1, Len(hist) - 1))

\* C29: the fan-out of every round N >= 2 sends a REVISION_REQUEST to exactly
\* the proposers that have a last-known-good output; each request carries the
\* recipient's own last-known-good output and the critique texts of all the
\* critiques recorded in round N-1; nothing goes to any other agent.
C29_RevisionFanOut ==
    [][(iteration_num' = iteration_num + 1 /\ iteration_num' >= 2 /\ pc' = "propose") =>
          LET previous == history[Len(history)]
              texts == [i \in 1..Len(previous.critiques) |->
                            previous.critiques[i].response_data.critique]
              revisers == {a \in Range(proposer_agents) : LastGood(a, history) # ""}
          IN  /\ previous.iteration = iteration_num' - 1
              /\ Range(recipients') = revisers
              /\ \A a \in revisers :
                     /\ outbox'[a] = Msg("REVISION_REQUEST", iteration_num', LastGood(a, history),
                                         texts, <<>>)
                     /\ calls'[a].st = "inflight"
              /\ \A a \in Agents \ revisers :
                     outbox'[a] = NoMsg /\ calls'[a].st = "idle"]_vars

\* Round 2 is being revised by one of the two proposers only: the other was
\* recorded in round 1 without text.
C29_Witness ==
    /\ pc = "propose"
    /\ iteration_num = 2
    /\ Len(recipients) = 1
    /\ Len(history[1].proposals) = 2
    /\ outbox[recipients[1]].last_proposal = "p"
    /\ outbox[recipients[1]].critiques = <<"c">>

\* C30: a proposer with usable output in round M that failed in every later
\* recorded round is asked to revise in the next round, with its round-M output
\* as the last proposal; an entry of the last-known-good map is never removed
\* and is replaced only by usable output of the same agent in the round just
\* gathered.
C30_LastKnownGoodCarriedForward ==
    /\ [](pc = "propose" /\ iteration_num >= 2 =>
             \A a \in Range(proposer_agents), M \in 1..Len(history) :
                 (/\ OutputIn(a, history[M]) # ""
                  /\ \A k \in (M + 1)..Len(history) : OutputIn(a, history[k]) = "")
                 => /\ a \in Range(recipients)
                    /\ outbox[a].mtype = "REVISION_REQUEST"
                    /\ outbox[a].last_proposal = OutputIn(a, history[M]))
    /\ [][\A a \in Agents :
              /\ last_proposals_map[a] # "" => last_proposals_map'[a] # ""
              /\ last_proposals_map'[a] # last_proposals_map[a] =>
                     /\ pc = "propose"
                     /\ last_proposals_map'[a] = OutputIn(a, iteration_log')]_vars

\* Round 3 asks a proposer that answered round 1 and timed out in round 2 to
\* revise its round-1 output.
C30_Witness ==
    /\ pc = "propose"
    /\ iteration_num = 3
    /\ \E a \in Range(recipients) :
           /\ OutputIn(a, history[1]) = "p"
           /\ OutputIn(a, history[2]) = ""
           /\ \A i \in 1..Len(history[2].proposals) : history[2].proposals[i].agent_id # a
           /\ outbox[a].last_proposal = "p"
           /\ last_proposals_map[a] = "p"

\* C31: under every stopping condition the round counter never exceeds the
\* administrative ceiling (of 1 or more); a round recorded with the counter at
\* the ceiling and the stopping condition false (and not raising) ends the loop
\* with the task completed, and no round starts after it.
C31_CeilingBoundsRounds ==
    /\ [](cfg.absolute_max_iterations >= 1 =>
              /\ iteration_num <= cfg.absolute_max_iterations
              /\ Len(history) <= cfg.absolute_max_iterations)
    /\ [][(/\ Len(history') = Len(history) + 1
           /\ iteration_num = cfg.absolute_max_iterations
           /\ ~check(cfg.cond, _get_iteration_state(history'))
           /\ ~CheckRaises(cfg.cond, _get_iteration_state(history')))
          => (status' = "completed" /\ pc' = "done" /\ error_info' = "Reached max iterations.")]_vars
    /\ [][(pc = "done") => (pc' = "done" /\ iteration_num' = iteration_num /\ sent' = sent)]_vars

\* Under a condition that never fires, the round at the ceiling was recorded
\* and the task completed.
C31_Witness ==
    /\ cfg.cond = CustomCond({})
    /\ cfg.absolute_max_iterations = MaxCeiling
    /\ iteration_num = MaxCeiling
    /\ Len(history) = MaxCeiling
    /\ pc = "done"
    /\ status = "completed"

\* C32: the round history is append-only: a step leaves it as it is or appends
\* one entry, the round just ended with the proposals and critiques gathered in
\* it, so that the history before the step is a prefix of the one after and
\* every entry keeps its round number, proposals and critiques; the entries
\* are numbered 1, 2, ... in order.
C32_HistoryAppendOnly ==
    /\ [][\/ history' = history
          \/ /\ Len(history') = Len(history) + 1
             /\ \A i \in 1..Len(history) :
                    /\ history'[i].iteration = history[i].iteration
                    /\ history'[i].proposals = history[i].proposals
                    /\ history'[i].critiques = history[i].critiques
             /\ history'[Len(history')] = iteration_log'
             /\ history'[Len(history')].iteration = iteration_num]_vars
    /\ [](\A i \in 1..Len(history) : history[i].iteration = i)

\* A second round was appended behind a first one that holds proposals and
\* critiques.
C32_Witness ==
    /\ Len(history) = 2
    /\ history[1].proposals # <<>>
    /\ history[1].critiques # <<>>
    /\ history[2].proposals # <<>>

\* The call to agent a in the gather that is returning failed for the phase
\* expecting the given kind: timeout, another kind or no message, an error
\* reply, an exception.
CallFailed(a, expected_response_type) ==
    /\ calls[a].st = "done"
    /\ calls[a].reply.mtype # expected_response_type

\* C33: when a phase's gather returns, every prompted agent whose call failed
\* has a record with its id and a failure reason in the phase's outcome, which
\* is what the round entry keeps for the phase.
C33_FailuresRecorded ==
    /\ [][(pc = "propose" /\ pc' # "propose") =>
             \A a \in Range(recipients) :
                 CallFailed(a, "PROPOSAL") =>
                     \E i \in 1..Len(iteration_log'.proposals) :
                         /\ iteration_log'.proposals[i].agent_id = a
                         /\ iteration_log'.proposals[i].error # ""]_vars
    /\ [][(pc = "critique" /\ pc' # "critique") =>
             \A a \in Range(recipients) :
                 CallFailed(a, "CRITIQUE") =>
                     \E i \in 1..Len(iteration_log'.critiques) :
                         /\ iteration_log'.critiques[i].agent_id = a
                         /\ iteration_log'.critiques[i].error # ""]_vars

\* ---------------------------------------------------------------------
\* C34: extending a built-in capability set with supplied capabilities never
\* drops a built-in value: for a key present on both sides the agent's value
\* set is the union of the built-in and the supplied values, whether the
\* supplied value is a list or a scalar, and a CriticAgent keeps 'critic' in
\* its roles whatever is supplied.
C34_MergeKeepsBuiltIns ==
    [][(last_call'.op \in AgentClasses /\ Len(cfg'.pool) = Len(cfg.pool) + 1)
       => LET result == cfg'.pool[Len(cfg'.pool)].caps
              core == last_call'.core_capabilities
              supplied == last_call'.capabilities
          IN  /\ \A key \in DOMAIN core \cap DOMAIN supplied :
                     /\ key \in DOMAIN result
                     /\ Range(result[key].items) =
                            Range(core[key].items) \cup Range(supplied[key].items)
              /\ last_call'.op = "CriticAgent" =>
                     /\ "roles" \in DOMAIN result
                     /\ "critic" \in Range(result.roles.items)]_vars

\* ---------------------------------------------------------------------
\* C35: the registry query and the allocator apply the same matching rule:
\* for every registered capability map, key k and required value v,
\* get_agents_with_capability(k, v) returns the agent exactly when
\* _matches_requirements(caps, {k: v}) is true.
C35_QueryAgreesWithAllocator ==
    [][(last_call'.op = "get_agents_with_capability")
       => \A i \in 1..Len(cfg.pool) :
              (cfg.pool[i].id \in Range(last_call'.result))
              <=> _matches_requirements(cfg.pool[i].caps,
                      [key \in {last_call'.capability_key} |-> last_call'.capability_value])]_vars

\* ---------------------------------------------------------------------
\* C36: with every per-agent call returning or timing out, every run of
\* run_iteration_loop that passes the guard eventually returns, whatever the
\* stopping condition and the agents' failures, and once it has returned the
\* task status is completed, converged, failed or failed_timeout.
C36_LoopTerminates ==
    /\ (pc = "scheduled" /\ ~SingleRunGuard) ~> (pc = "done")
    /\ []((pc = "done") => (status \in Terminal /\ status \notin {"pending", "running"}))

\* The loop has returned from a second round in which every call failed, under
\* a stopping condition that never fires.
C36_Witness ==
    /\ pc = "done"
    /\ cfg.cond = CustomCond({})
    /\ iteration_num = 2
    /\ Len(history) = 1
    /\ status = "failed"
    /\ error_info = "No valid output"

\* ---------------------------------------------------------------------
\* C37: the failure exit 'no agents for revision' is never taken: whenever a
\* round N >= 2 is about to start with critiques of the previous round at
\* hand, some proposer has a last-known-good output, and the revision request
\* of every such round goes to a non-empty set of proposers.
C37_RevisionAlwaysHasAgents ==
    /\ [](error_info # "No agents for revision.")
    /\ []((pc = "sleep" /\ ~NoCritiques(history[Len(history)].critiques))
              => (/\ AgentsToPrompt # <<>>
                  /\ \E a \in Range(proposer_agents) : last_proposals_map[a] # ""))
    /\ [][(pc' = "propose" /\ iteration_num' = iteration_num + 1 /\ iteration_num' >= 2)
              => (recipients' # <<>> /\ Range(recipients') \subseteq Range(proposer_agents))]_vars

\* A second round has been fanned out after a round with critiques, to fewer
\* proposers than were allocated.
C37_Witness ==
    /\ pc = "propose"
    /\ iteration_num = 2
    /\ history[1].critiques # <<>>
    /\ recipients # <<>>
    /\ Len(recipients) < Len(proposer_agents)
    /\ \A a \in Range(recipients) : outbox[a].mtype = "REVISION_REQUEST"

\* ---------------------------------------------------------------------
\* C38: after any sequence of start() and stop() calls on an agent, a start()
\* issued while a stop() still awaits the cancelled loop included, at most one
\* message loop of the agent is live, and whenever the agent is marked running
\* its loop handle refers to that live loop (so that a later stop() ends it).
C38_OneLoopHeldByHandle ==
    \A a \in NetIds :
        /\ Cardinality(LiveLoops(a)) <= 1
        /\ _is_running[a] => (/\ _processing_task[a] # 0
                              /\ LiveLoops(a) = {_processing_task[a]})

\* ---------------------------------------------------------------------
\* C39: a message sent through the local channel to a known agent that is not
\* running is not placed in that agent's inbox, and starting the agent later
\* adds nothing to its inbox either (the message is never processed), while
\* send() ends without an error.
C39_StoppedAgentDropsMessage ==
    /\ [][(last_call'.op = "send" /\ "*" \notin Range(last_call'.recipient_id))
              => \A a \in Range(last_call'.recipient_id) :
                     (a \in DOMAIN _agents /\ ~_is_running[a])
                         => (/\ inbox'[a] = inbox[a]
                             /\ a \in Range(last_call'.delivered_to)
                             /\ last_call'.error = "")]_vars
    /\ [][\A a \in Agents : (~_is_running[a] /\ _is_running'[a]) => inbox'[a] = inbox[a]]_vars

\* The last send named the registered agent a2 alone and ended without error;
\* a2 was started afterwards and its inbox is empty.
C39_Witness ==
    /\ last_call.op = "send"
    /\ last_call.recipient_id = <<"a2">>
    /\ last_call.delivered_to = <<"a2">>
    /\ last_call.error = ""
    /\ "a2" \in DOMAIN _agents
    /\ _is_running["a2"]
    /\ inbox["a2"] = 0

\* ---------------------------------------------------------------------
\* C40: get_result returns a payload only for a task whose status is completed
\* or converged; for pending, running, failed and failed_timeout it returns
\* None, so neither the error payload stored on a fault nor a result stored
\* under a status that is not completed or converged is ever returned.
C40_ResultOnlyWhenSuccessful ==
    /\ get_result # NoneData => status \in {"completed", "converged"}
    /\ status \in {"pending", "running", "failed", "failed_timeout"} => get_result = NoneData
    /\ get_result # ErrorResult
    /\ status \in {"completed", "converged"} => get_result = results

\* A fault has stored its error payload on the failed task; get_result gives None.
C40_Witness ==
    /\ status = "failed"
    /\ results = ErrorResult
    /\ pc = "done"
    /\ get_result = NoneData

====
